---- MODULE Spec2Model ----
(***************************************************************************)
(* The ledger engine of simpleblockchain (tsblockchain): the committed     *)
(* chain, the unspent-output list derived from it, the transaction pool,   *)
(* and the operations that change them (addBlockToChain, replaceChain,     *)
(* block generation, pool submission).                                     *)
(*                                                                         *)
(* Representation.  A JavaScript string is a TLA+ sequence, so '' is <<>>. *)
(* SHA-256 is taken to be collision free: a digest is the tuple of the     *)
(* values that were concatenated into its input.  A nullable result        *)
(* (UnspentTxOut[] or null) is a record [ok, v]; ok = FALSE is null.       *)
(***************************************************************************)
EXTENDS Integers, Sequences, FiniteSets, TLC

(***************************************************************************)
(* Bounds of the model.                                                    *)
(***************************************************************************)
MaxChain == 3        \* blocks in a chain, genesis included
MaxBlocks == 4       \* blocks the node and the peer hold together
MaxPool == 1         \* transactions in the pool
MaxDifficulty == 1   \* difficulty a peer claims for a block it sends
HashBits == 2        \* bits of a digest the model keeps (SHA-256 has 256)
MaxLedger == 4       \* blocks in the chain of LedgerSpec, genesis included
MaxLedgerPool == 2   \* transactions in the pool of LedgerSpec and PoolSpec
MaxRetarget == 12    \* blocks in the chain of RetargetSpec, genesis included
MaxClock == 2        \* minutes the clock of ClockSpec runs past the genesis timestamp
MaxSockets == 3      \* connections a node is offered
MaxWire == 2         \* messages in flight between the node and its peer

(***************************************************************************)
(* Program constants.                                                      *)
(***************************************************************************)
COINBASE_AMOUNT == 50
BLOCK_GENERATION_INTERVAL == 10
DIFFICULTY_ADJUSTMENT_INTERVAL == 10

GenesisAddress == "04bfcab8"   \* the genesis transaction's address
WalletAddress == "04aaaaaa"    \* getPublicFromWallet() of this node
PeerAddress == "04bbbbbb"      \* the public key of a peer's wallet

(***************************************************************************)
(* Sequence helpers (Array.prototype.map / reduce / filter / find).        *)
(***************************************************************************)
RECURSIVE SumSeq(_)
SumSeq(s) == IF s = <<>> THEN 0 ELSE Head(s) + SumSeq(Tail(s))

RECURSIVE Flatten(_)
Flatten(ss) == IF ss = <<>> THEN <<>> ELSE Head(ss) \o Flatten(Tail(ss))

MapSeq(s, f(_)) == [i \in 1..Len(s) |-> f(s[i])]

Last(s) == s[Len(s)]

NULL == [ok |-> FALSE, v |-> <<>>]
Some(x) == [ok |-> TRUE, v |-> x]

(***************************************************************************)
(* transaction.ts                                                          *)
(***************************************************************************)
UnspentTxOut(txOutId, txOutIndex, address, amount) ==
    [txOutId |-> txOutId, txOutIndex |-> txOutIndex,
     address |-> address, amount |-> amount]

TxIn(txOutId, txOutIndex, signature) ==
    [txOutId |-> txOutId, txOutIndex |-> txOutIndex, signature |-> signature]

TxOut(address, amount) == [address |-> address, amount |-> amount]

\* A string is a sequence of items: a character, or a digest, which stands
\* for its 64 hexadecimal characters.
Char(c) == <<c>>

\* '' + n for a number n: its decimal digits, after a minus sign if n < 0.
RECURSIVE numberToString(_)
numberToString(n) ==
    IF n < 0 THEN <<Char(-1)>> \o numberToString(-n)
    ELSE IF n < 10 THEN <<Char(n)>>
    ELSE numberToString(n \div 10) \o <<Char(n % 10)>>

\* The digest of the concatenated inputs (txOutId, txOutIndex) and outputs
\* (address, amount); the signatures are not part of it.  The id is the
\* string of one item, the digest.
getTransactionId(transaction) ==
    << << MapSeq(transaction.txIns, LAMBDA txIn : <<txIn.txOutId, txIn.txOutIndex>>),
          MapSeq(transaction.txOuts, LAMBDA txOut : <<txOut.address, txOut.amount>>) >> >>

Transaction(txIns, txOuts) ==
    [id |-> getTransactionId([txIns |-> txIns, txOuts |-> txOuts]),
     txIns |-> txIns, txOuts |-> txOuts]

\* key.sign(transaction.id) under the private key of `address`, and
\* key.verify(transaction.id, signature) under the public key `address`.
Sign(address, id) == <<address, id>>
Verify(address, id, signature) == signature = Sign(address, id)

\* aUnspentTxOuts.find(...): the first entry with this key, or none.
findUnspentTxOut(transactionId, index, aUnspentTxOuts) ==
    LET hits == {i \in 1..Len(aUnspentTxOuts) :
                    /\ aUnspentTxOuts[i].txOutId = transactionId
                    /\ aUnspentTxOuts[i].txOutIndex = index}
    IN  IF hits = {} THEN NULL
        ELSE Some(aUnspentTxOuts[CHOOSE i \in hits : \A j \in hits : i <= j])

getTxInAmount(txIn, aUnspentTxOuts) ==
    findUnspentTxOut(txIn.txOutId, txIn.txOutIndex, aUnspentTxOuts).v.amount

validateTxIn(txIn, transaction, aUnspentTxOuts) ==
    LET referencedUTxOut ==
            findUnspentTxOut(txIn.txOutId, txIn.txOutIndex, aUnspentTxOuts)
    IN  /\ referencedUTxOut.ok
        /\ Verify(referencedUTxOut.v.address, transaction.id, txIn.signature)

isValidAddress(address) ==
    address \in {GenesisAddress, WalletAddress, PeerAddress}

isValidTxOutStructure(txOut) == isValidAddress(txOut.address)

\* Every transaction of the model has an id, a list of well-typed inputs and a
\* list of outputs; what is left of the shape check is the outputs' addresses.
isValidTransactionStructure(transaction) ==
    \A i \in 1..Len(transaction.txOuts) :
        isValidTxOutStructure(transaction.txOuts[i])

\* The sums of the outputs and of the inputs are not compared.
validateTransaction_noSum(transaction, aUnspentTxOuts) ==
    /\ isValidTransactionStructure(transaction)
    /\ getTransactionId(transaction) = transaction.id
    /\ \A i \in 1..Len(transaction.txIns) :
          validateTxIn(transaction.txIns[i], transaction, aUnspentTxOuts)

validateTransaction(transaction, aUnspentTxOuts) ==
    /\ isValidTransactionStructure(transaction)
    /\ getTransactionId(transaction) = transaction.id
    /\ \A i \in 1..Len(transaction.txIns) :
          validateTxIn(transaction.txIns[i], transaction, aUnspentTxOuts)
    /\ SumSeq(MapSeq(transaction.txOuts, LAMBDA txOut : txOut.amount))
         = SumSeq(MapSeq(transaction.txIns,
                         LAMBDA txIn : getTxInAmount(txIn, aUnspentTxOuts)))

\* The key _.countBy groups the inputs of a block by: the string
\* txIn.txOutId + txIn.txOutIndex.
txInKey(txIn) == txIn.txOutId \o numberToString(txIn.txOutIndex)

hasDuplicates(txIns) ==
    \E i, j \in 1..Len(txIns) : i < j /\ txInKey(txIns[i]) = txInKey(txIns[j])

validateCoinbaseTx(transaction, blockIndex) ==
    /\ transaction.ok
    /\ getTransactionId(transaction.v) = transaction.v.id
    /\ Len(transaction.v.txIns) = 1
    /\ transaction.v.txIns[1].txOutIndex = blockIndex
    /\ Len(transaction.v.txOuts) = 1
    /\ transaction.v.txOuts[1].amount = COINBASE_AMOUNT

validateBlockTransactions(aTransactions, aUnspentTxOuts, blockIndex) ==
    LET coinbaseTx == IF aTransactions = <<>> THEN NULL
                      ELSE Some(aTransactions[1])
        txIns == Flatten(MapSeq(aTransactions, LAMBDA tx : tx.txIns))
    IN  /\ validateCoinbaseTx(coinbaseTx, blockIndex)
        /\ ~hasDuplicates(txIns)
        /\ \A i \in 2..Len(aTransactions) :
              validateTransaction(aTransactions[i], aUnspentTxOuts)

\* The new outputs are numbered from 1.
updateUnspentTxOuts_oneBased(aTransactions, aUnspentTxOuts) ==
    LET newUnspentTxOuts ==
            Flatten(MapSeq(aTransactions, LAMBDA t :
                [index \in 1..Len(t.txOuts) |->
                    UnspentTxOut(t.id, index, t.txOuts[index].address,
                                 t.txOuts[index].amount)]))
        consumedTxOuts ==
            MapSeq(Flatten(MapSeq(aTransactions, LAMBDA t : t.txIns)),
                   LAMBDA txIn : UnspentTxOut(txIn.txOutId, txIn.txOutIndex, "", 0))
    IN  SelectSeq(aUnspentTxOuts,
                  LAMBDA uTxO : ~findUnspentTxOut(uTxO.txOutId, uTxO.txOutIndex,
                                                  consumedTxOuts).ok)
          \o newUnspentTxOuts

\* The new outputs come first, the outputs that are left after them.
updateUnspentTxOuts_newFirst(aTransactions, aUnspentTxOuts) ==
    LET newUnspentTxOuts ==
            Flatten(MapSeq(aTransactions, LAMBDA t :
                [index \in 1..Len(t.txOuts) |->
                    UnspentTxOut(t.id, index - 1, t.txOuts[index].address,
                                 t.txOuts[index].amount)]))
        consumedTxOuts ==
            MapSeq(Flatten(MapSeq(aTransactions, LAMBDA t : t.txIns)),
                   LAMBDA txIn : UnspentTxOut(txIn.txOutId, txIn.txOutIndex, "", 0))
    IN  newUnspentTxOuts
          \o SelectSeq(aUnspentTxOuts,
                       LAMBDA uTxO : ~findUnspentTxOut(uTxO.txOutId, uTxO.txOutIndex,
                                                       consumedTxOuts).ok)

updateUnspentTxOuts(aTransactions, aUnspentTxOuts) ==
    LET newUnspentTxOuts ==
            Flatten(MapSeq(aTransactions, LAMBDA t :
                [index \in 1..Len(t.txOuts) |->
                    UnspentTxOut(t.id, index - 1, t.txOuts[index].address,
                                 t.txOuts[index].amount)]))
        consumedTxOuts ==
            MapSeq(Flatten(MapSeq(aTransactions, LAMBDA t : t.txIns)),
                   LAMBDA txIn : UnspentTxOut(txIn.txOutId, txIn.txOutIndex, "", 0))
    IN  SelectSeq(aUnspentTxOuts,
                  LAMBDA uTxO : ~findUnspentTxOut(uTxO.txOutId, uTxO.txOutIndex,
                                                  consumedTxOuts).ok)
          \o newUnspentTxOuts

processTransactions(aTransactions, aUnspentTxOuts, blockIndex) ==
    IF ~validateBlockTransactions(aTransactions, aUnspentTxOuts, blockIndex)
    THEN NULL
    ELSE Some(updateUnspentTxOuts(aTransactions, aUnspentTxOuts))

getCoinbaseTransaction(address, blockIndex) ==
    Transaction(<<TxIn(<<>>, blockIndex, <<>>)>>,
                <<TxOut(address, COINBASE_AMOUNT)>>)

(***************************************************************************)
(* The state of a node.                                                    *)
(***************************************************************************)
VARIABLES
    blockchain,       \* let blockchain: Block[]
    unspentTxOuts,    \* let unspentTxOuts: UnspentTxOut[]
    transactionPool,  \* the pool of transactionPool.ts
    now,              \* what getCurrentTimestamp() returns
    peerChain,        \* the blocks a peer holds and may send
    snapshot,         \* the array a caller of getBlockchain() holds
    mined,            \* a block findBlock has produced, not yet handed in
    sockets,          \* const sockets: WebSocket[]
    links,            \* what has happened to each connection so far
    wire,             \* the messages in flight
    ret               \* the last call: its name, argument, result, broadcast

\* The network side of the state.
net == <<sockets, links, wire>>

vars == <<blockchain, unspentTxOuts, transactionPool, now, peerChain, snapshot,
          mined, sockets, links, wire, ret>>

(***************************************************************************)
(* blockchain.ts                                                           *)
(***************************************************************************)
Block(index, hash, previousHash, timestamp, data, difficulty, nonce) ==
    [index |-> index, hash |-> hash, previousHash |-> previousHash,
     timestamp |-> timestamp, data |-> data, difficulty |-> difficulty,
     nonce |-> nonce]

\* The literal id of the source, e655f6a5..., is the SHA-256 of
\* '0' + address + '50': what getTransactionId gives for this transaction.
genesisTransaction ==
    Transaction(<<TxIn(<<>>, 0, <<>>)>>, <<TxOut(GenesisAddress, 50)>>)

\* The genesis block's hash is a literal of the source; it is not the digest
\* calculateHash gives for the block's fields.
genesisBlock ==
    Block(0, <<"91a73664bc84c0ba">>, <<>>, 1465154705, <<genesisTransaction>>, 0, 0)

getLatestBlock == Last(blockchain)

\* index + previousHash + timestamp + data + difficulty + nonce: an array in a
\* string concatenation becomes its elements' strings joined by commas, and
\* every transaction object becomes '[object Object]', so of `data` the
\* hashed string holds the number of transactions and nothing else.
dataToString(data) == Len(data)

calculateHash(index, previousHash, timestamp, data, difficulty, nonce) ==
    <<index, previousHash, timestamp, dataToString(data), difficulty, nonce>>

calculateHashForBlock(block) ==
    calculateHash(block.index, block.previousHash, block.timestamp, block.data,
                  block.difficulty, block.nonce)

\* The binary expansion of a digest, HashBits bits of it: a fixed function of
\* the hashed values standing for SHA-256's bits, in which the nonce runs
\* through every bit pattern.  A hash that is no digest (a literal) has no
\* leading zero.
hexToBinary(hash) ==
    IF Len(hash) # 6 THEN [i \in 1..HashBits |-> 1]
    ELSE LET mix == (hash[1] + hash[3] + 3 * hash[4] + 2 * hash[5] + hash[6])
                        % (2 ^ HashBits)
         IN  [i \in 1..HashBits |-> (mix \div (2 ^ (HashBits - i))) % 2]

hashMatchesDifficulty(hash, difficulty) ==
    LET hashInBinary == hexToBinary(hash)
    IN  /\ difficulty <= Len(hashInBinary)
        /\ \A i \in 1..difficulty : hashInBinary[i] = 0

hashMatchesBlockContent(block) == calculateHashForBlock(block) = block.hash

\* A difficulty that is not met is logged, and the block is valid all the same.
hasValidHash(block) == hashMatchesBlockContent(block)

\* A timestamp a minute behind the previous block's, or a minute ahead of the
\* clock, passes.
isValidTimestamp_inclusive(newBlock, previousBlock) ==
    /\ previousBlock.timestamp - 60 <= newBlock.timestamp
    /\ newBlock.timestamp - 60 <= now

isValidTimestamp(newBlock, previousBlock) ==
    /\ previousBlock.timestamp - 60 < newBlock.timestamp
    /\ newBlock.timestamp - 60 < now

isValidNewBlock_noLink(newBlock, previousBlock) ==
    /\ previousBlock.index + 1 = newBlock.index
    /\ isValidTimestamp(newBlock, previousBlock)
    /\ hasValidHash(newBlock)

\* Every block of the model has fields of the types isValidBlockStructure asks
\* for, so that check is passed and the four that follow decide.
isValidNewBlock(newBlock, previousBlock) ==
    /\ previousBlock.index + 1 = newBlock.index
    /\ previousBlock.hash = newBlock.previousHash
    /\ isValidTimestamp(newBlock, previousBlock)
    /\ hasValidHash(newBlock)

\* The weight of the heaviest block instead of the sum of the weights.
getAccumulatedDifficulty_heaviest(aBlockchain) ==
    LET weights == MapSeq(aBlockchain, LAMBDA block : 2 ^ block.difficulty)
    IN  IF weights = <<>> THEN 0
        ELSE CHOOSE w \in {weights[i] : i \in 1..Len(weights)} :
                 \A i \in 1..Len(weights) : weights[i] <= w

getAccumulatedDifficulty(aBlockchain) ==
    SumSeq(MapSeq(aBlockchain, LAMBDA block : 2 ^ block.difficulty))

RECURSIVE validateFrom(_, _, _)
validateFrom(blockchainToValidate, i, aUnspentTxOuts) ==
    IF i > Len(blockchainToValidate) THEN Some(aUnspentTxOuts)
    ELSE IF i # 1 /\ ~isValidNewBlock(blockchainToValidate[i], blockchainToValidate[i - 1])
         THEN NULL
         ELSE LET r == processTransactions(blockchainToValidate[i].data, aUnspentTxOuts,
                                           blockchainToValidate[i].index)
              IN  IF ~r.ok THEN NULL
                  ELSE validateFrom(blockchainToValidate, i + 1, r.v)

isValidGenesis_hashOnly(block) == block.hash = genesisBlock.hash

isValidGenesis(block) == block = genesisBlock

isValidChain(blockchainToValidate) ==
    IF blockchainToValidate = <<>> \/ ~isValidGenesis(blockchainToValidate[1])
    THEN NULL
    ELSE validateFrom(blockchainToValidate, 1, <<>>)

\* aBlockchain[blockchain.length - 1]: the position is taken from the node's
\* own chain, whatever chain is passed.
getAdjustedDifficulty(latestBlock, aBlockchain) ==
    LET prevAdjustmentBlock ==
            aBlockchain[Len(blockchain) - DIFFICULTY_ADJUSTMENT_INTERVAL + 1]
        timeExpected == BLOCK_GENERATION_INTERVAL * DIFFICULTY_ADJUSTMENT_INTERVAL
        timeTaken == latestBlock.timestamp - prevAdjustmentBlock.timestamp
    IN  IF 2 * timeTaken < timeExpected THEN prevAdjustmentBlock.difficulty + 1
        ELSE IF timeTaken > timeExpected * 2 THEN prevAdjustmentBlock.difficulty - 1
        ELSE prevAdjustmentBlock.difficulty

getDifficulty(aBlockchain) ==
    LET latestBlock == aBlockchain[Len(blockchain)]
    IN  IF latestBlock.index % DIFFICULTY_ADJUSTMENT_INTERVAL = 0 /\ latestBlock.index # 0
        THEN getAdjustedDifficulty(latestBlock, aBlockchain)
        ELSE latestBlock.difficulty

\* The nonces findBlock tries: the digest's bits repeat with period
\* 2^HashBits in the nonce, so a search that has not ended by then never ends.
Nonces == 0..(2 ^ HashBits - 1)

findBlockEnds(index, previousHash, timestamp, data, difficulty) ==
    \E nonce \in Nonces :
        hashMatchesDifficulty(
            calculateHash(index, previousHash, timestamp, data, difficulty, nonce),
            difficulty)

findBlock(index, previousHash, timestamp, data, difficulty) ==
    LET good(nonce) ==
            hashMatchesDifficulty(
                calculateHash(index, previousHash, timestamp, data, difficulty, nonce),
                difficulty)
        nonce == CHOOSE n \in Nonces : good(n) /\ \A m \in 0..(n - 1) : ~good(m)
    IN  Block(index,
              calculateHash(index, previousHash, timestamp, data, difficulty, nonce),
              previousHash, timestamp, data, difficulty, nonce)

(***************************************************************************)
(* transactionPool.ts                                                      *)
(***************************************************************************)
\* Drops every pool entry with an input that is not in the unspent outputs.
updateTransactionPool(pool, aUnspentTxOuts) ==
    SelectSeq(pool, LAMBDA tx :
        \A i \in 1..Len(tx.txIns) :
            findUnspentTxOut(tx.txIns[i].txOutId, tx.txIns[i].txOutIndex,
                             aUnspentTxOuts).ok)

\* An input of tx is an input of a pool entry already.
isValidTxForPool(tx, pool) ==
    LET txPoolIns == Flatten(MapSeq(pool, LAMBDA t : t.txIns))
    IN  \A i \in 1..Len(tx.txIns) : \A j \in 1..Len(txPoolIns) :
            \/ tx.txIns[i].txOutId # txPoolIns[j].txOutId
            \/ tx.txIns[i].txOutIndex # txPoolIns[j].txOutIndex

\* The pool with tx added, or null where the source throws.
addToTransactionPool(tx, aUnspentTxOuts) ==
    IF ~validateTransaction(tx, aUnspentTxOuts) THEN NULL
    ELSE IF ~isValidTxForPool(tx, transactionPool) THEN NULL
    ELSE Some(Append(transactionPool, tx))

(***************************************************************************)
(* The operations of blockchain.ts that change the state.  Each gives the  *)
(* state it leaves, its result (val) and whether it broadcast (bc).        *)
(***************************************************************************)
Outcome(chain, utxos, pool, val, bc) ==
    [blockchain |-> chain, unspentTxOuts |-> utxos, transactionPool |-> pool,
     val |-> val, bc |-> bc]

\* The block is pushed before its transactions are processed.
addBlockToChain_pushFirst(newBlock) ==
    IF isValidNewBlock(newBlock, getLatestBlock)
    THEN LET retVal == processTransactions(newBlock.data, unspentTxOuts, newBlock.index)
         IN  IF ~retVal.ok
             THEN Outcome(Append(blockchain, newBlock), unspentTxOuts, transactionPool,
                          FALSE, FALSE)
             ELSE Outcome(Append(blockchain, newBlock), retVal.v,
                          updateTransactionPool(transactionPool, retVal.v), TRUE, FALSE)
    ELSE Outcome(blockchain, unspentTxOuts, transactionPool, FALSE, FALSE)

\* The block is not checked against the latest block.
addBlockToChain_anyBlock(newBlock) ==
    LET retVal == processTransactions(newBlock.data, unspentTxOuts, newBlock.index)
    IN  IF ~retVal.ok
        THEN Outcome(blockchain, unspentTxOuts, transactionPool, FALSE, FALSE)
        ELSE Outcome(Append(blockchain, newBlock), retVal.v,
                     updateTransactionPool(transactionPool, retVal.v), TRUE, FALSE)

addBlockToChain(newBlock) ==
    IF isValidNewBlock(newBlock, getLatestBlock)
    THEN LET retVal == processTransactions(newBlock.data, unspentTxOuts, newBlock.index)
         IN  IF ~retVal.ok
             THEN Outcome(blockchain, unspentTxOuts, transactionPool, FALSE, FALSE)
             ELSE Outcome(Append(blockchain, newBlock), retVal.v,
                          updateTransactionPool(transactionPool, retVal.v), TRUE, FALSE)
    ELSE Outcome(blockchain, unspentTxOuts, transactionPool, FALSE, FALSE)

\* A chain of equal accumulated difficulty replaces the chain held.
replaceChain_onTie(newBlocks) ==
    LET aUnspentTxOuts == isValidChain(newBlocks)
        validChain == aUnspentTxOuts.ok
    IN  IF validChain
           /\ getAccumulatedDifficulty(newBlocks) >= getAccumulatedDifficulty(blockchain)
        THEN Outcome(newBlocks, aUnspentTxOuts.v,
                     updateTransactionPool(transactionPool, aUnspentTxOuts.v), TRUE, TRUE)
        ELSE Outcome(blockchain, unspentTxOuts, transactionPool, FALSE, FALSE)

\* The chain is assigned before it is known to be valid and heavier.
replaceChain_assignFirst(newBlocks) ==
    LET aUnspentTxOuts == isValidChain(newBlocks)
        validChain == aUnspentTxOuts.ok
    IN  IF validChain
           /\ getAccumulatedDifficulty(newBlocks) > getAccumulatedDifficulty(blockchain)
        THEN Outcome(newBlocks, aUnspentTxOuts.v,
                     updateTransactionPool(transactionPool, aUnspentTxOuts.v), TRUE, TRUE)
        ELSE Outcome(newBlocks, unspentTxOuts, transactionPool, FALSE, FALSE)

\* The unspent outputs are not replaced with the chain.
replaceChain_keepUnspent(newBlocks) ==
    LET aUnspentTxOuts == isValidChain(newBlocks)
        validChain == aUnspentTxOuts.ok
    IN  IF validChain
           /\ getAccumulatedDifficulty(newBlocks) > getAccumulatedDifficulty(blockchain)
        THEN Outcome(newBlocks, unspentTxOuts,
                     updateTransactionPool(transactionPool, unspentTxOuts), TRUE, TRUE)
        ELSE Outcome(blockchain, unspentTxOuts, transactionPool, FALSE, FALSE)

\* The accumulated difficulties are not compared.
replaceChain_anyValid(newBlocks) ==
    LET aUnspentTxOuts == isValidChain(newBlocks)
        validChain == aUnspentTxOuts.ok
    IN  IF validChain
        THEN Outcome(newBlocks, aUnspentTxOuts.v,
                     updateTransactionPool(transactionPool, aUnspentTxOuts.v), TRUE, TRUE)
        ELSE Outcome(blockchain, unspentTxOuts, transactionPool, FALSE, FALSE)

replaceChain(newBlocks) ==
    LET aUnspentTxOuts == isValidChain(newBlocks)
        validChain == aUnspentTxOuts.ok
    IN  IF validChain
           /\ getAccumulatedDifficulty(newBlocks) > getAccumulatedDifficulty(blockchain)
        THEN Outcome(newBlocks, aUnspentTxOuts.v,
                     updateTransactionPool(transactionPool, aUnspentTxOuts.v), TRUE, TRUE)
        ELSE Outcome(blockchain, unspentTxOuts, transactionPool, FALSE, FALSE)

\* The latest block is not broadcast when the block was added.
generateRawNextBlock_noBroadcast(blockData) ==
    LET previousBlock == getLatestBlock
        difficulty == getDifficulty(blockchain)
        nextIndex == previousBlock.index + 1
        nextTimestamp == now
        newBlock == findBlock(nextIndex, previousBlock.hash, nextTimestamp, blockData,
                              difficulty)
        added == addBlockToChain(newBlock)
    IN  IF added.val
        THEN [added EXCEPT !.val = Some(newBlock)]
        ELSE [added EXCEPT !.val = NULL]

generateRawNextBlock(blockData) ==
    LET previousBlock == getLatestBlock
        difficulty == getDifficulty(blockchain)
        nextIndex == previousBlock.index + 1
        nextTimestamp == now
        newBlock == findBlock(nextIndex, previousBlock.hash, nextTimestamp, blockData,
                              difficulty)
        added == addBlockToChain(newBlock)
    IN  IF added.val
        THEN [added EXCEPT !.val = Some(newBlock), !.bc = TRUE]
        ELSE [added EXCEPT !.val = NULL]

generateNextBlock ==
    LET coinbaseTx == getCoinbaseTransaction(WalletAddress, getLatestBlock.index + 1)
        blockData == <<coinbaseTx>> \o transactionPool
    IN  generateRawNextBlock(blockData)

handleReceivedTransaction(transaction) ==
    LET added == addToTransactionPool(transaction, unspentTxOuts)
    IN  IF added.ok
        THEN Outcome(blockchain, unspentTxOuts, added.v, TRUE, FALSE)
        ELSE Outcome(blockchain, unspentTxOuts, transactionPool, FALSE, FALSE)

(***************************************************************************)
(* What the environment supplies: the transactions users sign and the      *)
(* blocks peers send, well formed or not.                                  *)
(***************************************************************************)
\* A transaction with no input: an output of 1 and an output of -1.
ZeroInTx == Transaction(<<>>, <<TxOut(WalletAddress, 1), TxOut(WalletAddress, -1)>>)

\* The wallet owner spends one of its outputs whole, to `address`.
SpendTx(uTxO, address) ==
    LET txOuts == <<TxOut(address, uTxO.amount)>>
        unsigned == Transaction(<<TxIn(uTxO.txOutId, uTxO.txOutIndex, <<>>)>>, txOuts)
    IN  [unsigned EXCEPT !.txIns =
            <<TxIn(uTxO.txOutId, uTxO.txOutIndex, Sign(uTxO.address, unsigned.id))>>]

Spendable(aUnspentTxOuts) ==
    {aUnspentTxOuts[i] : i \in {j \in 1..Len(aUnspentTxOuts) :
        /\ aUnspentTxOuts[j].address = WalletAddress
        /\ aUnspentTxOuts[j].amount > 0}}

UserTxs(aUnspentTxOuts) ==
    {ZeroInTx} \cup {SpendTx(uTxO, PeerAddress) : uTxO \in Spendable(aUnspentTxOuts)}

\* A block as a peer builds it on `previousBlock`: the hash is the digest of the
\* fields, the nonce is the first one tried.
PeerBlock(previousBlock, timestamp, data, difficulty) ==
    Block(previousBlock.index + 1,
          calculateHash(previousBlock.index + 1, previousBlock.hash, timestamp, data,
                        difficulty, 0),
          previousBlock.hash, timestamp, data, difficulty, 0)

\* Well-formed blocks: a coinbase alone at each difficulty, and blocks that
\* carry user transactions.  Whether the hash meets the difficulty is as it
\* falls: a peer is not held to searching for a nonce.
GoodBlocks(previousBlock, aUnspentTxOuts) ==
    LET coinbaseTx == getCoinbaseTransaction(PeerAddress, previousBlock.index + 1)
    IN  {PeerBlock(previousBlock, now, <<coinbaseTx>>, difficulty) :
            difficulty \in 0..MaxDifficulty}
        \cup {PeerBlock(previousBlock, now, <<coinbaseTx, ZeroInTx, ZeroInTx>>, 0)}
        \cup {PeerBlock(previousBlock, now, <<coinbaseTx, tx>>, 0) :
                tx \in UserTxs(aUnspentTxOuts) \ {ZeroInTx}}

\* Blocks with one defect each: the hash is not the digest of the fields, the
\* previous hash is not the tip's, the index is the tip's, the timestamp is a
\* minute ahead of the clock, the coinbase pays too much, an output is spent
\* twice.
BadBlocks(previousBlock, aUnspentTxOuts) ==
    LET coinbaseTx == getCoinbaseTransaction(PeerAddress, previousBlock.index + 1)
        good == PeerBlock(previousBlock, now, <<coinbaseTx>>, 0)
        richTx == Transaction(<<TxIn(<<>>, previousBlock.index + 1, <<>>)>>,
                              <<TxOut(PeerAddress, COINBASE_AMOUNT + 1)>>)
    IN  { [good EXCEPT !.hash = <<"bad">>],
          PeerBlock([previousBlock EXCEPT !.hash = <<"bad">>], now, <<coinbaseTx>>, 0),
          PeerBlock([previousBlock EXCEPT !.index = @ - 1], now, <<coinbaseTx>>, 0),
          PeerBlock(previousBlock, now + 60, <<coinbaseTx>>, 0),
          PeerBlock(previousBlock, now, <<richTx>>, 0) }
        \cup {PeerBlock(previousBlock, now, <<coinbaseTx, tx, tx>>, 0) :
                tx \in UserTxs(aUnspentTxOuts) \ {ZeroInTx}}

PeerBlocks(previousBlock, aUnspentTxOuts) ==
    GoodBlocks(previousBlock, aUnspentTxOuts) \cup BadBlocks(previousBlock, aUnspentTxOuts)

\* A first block that is not the genesis block.
otherGenesisBlock == [genesisBlock EXCEPT !.timestamp = @ + 1]

\* What a peer puts on its chain: the genesis block, then well-formed blocks.
PeerChainBlocks ==
    IF peerChain = <<>> THEN {genesisBlock}
    ELSE GoodBlocks(Last(peerChain), isValidChain(peerChain).v)

\* What a peer sends of its chain: the chain, the chain on another first
\* block, or the chain with a last block whose hash is not the digest of its
\* fields.
PeerChains ==
    {peerChain}
    \cup (IF peerChain = <<>> THEN {}
          ELSE {[peerChain EXCEPT ![1] = otherGenesisBlock]})
    \cup (IF Len(peerChain) < 2 THEN {}
          ELSE {[peerChain EXCEPT ![Len(peerChain)].hash = <<"bad">>]})

(***************************************************************************)
(* The specification.  ret records the last call: op names it, val is its  *)
(* result, bc whether it broadcast the latest block, arg the block or      *)
(* transaction it took in when it changed the state, and obs what the      *)
(* validators say of its argument in the state it was called in.           *)
(***************************************************************************)
Called(op, arg, val, bc, obs) ==
    [op |-> op, arg |-> arg, val |-> val, bc |-> bc, obs |-> obs]

NoObs == [none |-> TRUE]

\* No caller holds an array yet; no block is waiting to be handed in.
NoSnapshot == [taken |-> FALSE, shared |-> FALSE, was |-> <<>>, is |-> <<>>]
NoMined == [ok |-> FALSE, block |-> <<>>, tip |-> <<>>]

\* The connections a node may be offered, none of them made yet.
Sockets == 1..MaxSockets
NoLinks == [socket \in Sockets |-> "unused"]

\* No message is in flight, to the node or to its peer.
NoWire == [toNode |-> <<>>, toPeer |-> <<>>]

Init ==
    /\ blockchain = <<genesisBlock>>
    /\ unspentTxOuts = processTransactions(genesisBlock.data, <<>>, 0).v
    /\ transactionPool = <<>>
    /\ now = genesisBlock.timestamp
    /\ peerChain = <<>>
    /\ snapshot = NoSnapshot
    /\ mined = NoMined
    /\ sockets = <<>>
    /\ links = NoLinks
    /\ wire = NoWire
    /\ ret = Called("init", <<>>, FALSE, FALSE, NoObs)

\* The bounds on the blocks held.
CanGrow(chain) ==
    /\ Len(chain) < MaxChain
    /\ Len(blockchain) + Len(peerChain) < MaxBlocks

\* The array a caller got from getBlockchain() is the array `blockchain`
\* names until replaceChain assigns another array to the variable: a push
\* shows in it, an assignment leaves it as it is.
snapshotAfter(chain, assigned) ==
    IF ~snapshot.shared THEN snapshot
    ELSE IF assigned THEN [snapshot EXCEPT !.shared = FALSE]
    ELSE [snapshot EXCEPT !.is = chain]

\* The state an operation leaves; `assigned` when it assigned to `blockchain`.
Commit(r, assigned) ==
    /\ blockchain' = r.blockchain
    /\ unspentTxOuts' = r.unspentTxOuts
    /\ transactionPool' = r.transactionPool
    /\ snapshot' = snapshotAfter(r.blockchain, assigned)

\* A peer's block is handed to addBlockToChain.
AddBlockToChain ==
    /\ CanGrow(blockchain)
    /\ \E newBlock \in PeerBlocks(getLatestBlock, unspentTxOuts) :
          LET r == addBlockToChain(newBlock)
              obs == [validBlock |-> isValidNewBlock(newBlock, getLatestBlock),
                      validTxs |-> processTransactions(newBlock.data, unspentTxOuts,
                                                       newBlock.index).ok]
          IN  /\ Commit(r, FALSE)
              /\ ret' = Called("addBlockToChain",
                               IF r.val THEN newBlock ELSE <<>>,
                               r.val, r.bc, obs)
    /\ UNCHANGED <<net, now, peerChain, mined>>

\* The peer's chain is handed to replaceChain.
ReplaceChain ==
    /\ \E newBlocks \in PeerChains :
          LET r == replaceChain(newBlocks)
              obs == [validChain |-> isValidChain(newBlocks).ok,
                      genesis |-> newBlocks # <<>> /\ newBlocks[1] = genesisBlock,
                      weight |-> IF newBlocks = <<>> THEN 0
                                 ELSE getAccumulatedDifficulty(newBlocks),
                      held |-> getAccumulatedDifficulty(blockchain)]
          IN  /\ Commit(r, r.val)
              /\ ret' = Called("replaceChain",
                               IF r.val THEN newBlocks ELSE <<>>,
                               r.val, r.bc, obs)
    /\ UNCHANGED <<net, now, peerChain, mined>>

\* POST /mineBlock.
GenerateNextBlock ==
    /\ CanGrow(blockchain)
    /\ findBlockEnds(getLatestBlock.index + 1, getLatestBlock.hash, now,
                     <<0>> \o transactionPool, getDifficulty(blockchain))
    /\ LET r == generateNextBlock
       IN  /\ Commit(r, FALSE)
           /\ ret' = Called("generateNextBlock", <<>>, r.val, r.bc, NoObs)
    /\ UNCHANGED <<net, now, peerChain, mined>>

\* A transaction of a RESPONSE_TRANSACTION_POOL message.
HandleReceivedTransaction ==
    /\ Len(transactionPool) < MaxPool
    /\ \E transaction \in UserTxs(unspentTxOuts) :
          LET r == handleReceivedTransaction(transaction)
          IN  /\ Commit(r, FALSE)
              /\ ret' = Called("handleReceivedTransaction", <<>>, r.val, r.bc, NoObs)
    /\ UNCHANGED <<net, now, peerChain, mined>>

\* The peer puts one more block on its chain.
PeerExtend ==
    /\ CanGrow(peerChain)
    /\ \E block \in PeerChainBlocks : peerChain' = Append(peerChain, block)
    /\ ret' = Called("peer", <<>>, FALSE, FALSE, NoObs)
    /\ UNCHANGED <<net, blockchain, unspentTxOuts, transactionPool, now, snapshot, mined>>

Next ==
    \/ AddBlockToChain
    \/ ReplaceChain
    \/ GenerateNextBlock
    \/ HandleReceivedTransaction
    \/ PeerExtend

Spec == Init /\ [][Next]_vars

(***************************************************************************)
(* LedgerSpec: the same node, fed with a wider choice of transactions and  *)
(* with blocks at difficulty 0 only.  Blocks come in through               *)
(* addBlockToChain, transactions through handleReceivedTransaction, and    *)
(* the node mines through generateRawNextBlock.                            *)
(***************************************************************************)
\* A transaction that spends the outputs `uTxOs`, each input signed by the
\* owner of the output it names.
SignedTx(uTxOs, txOuts) ==
    LET unsigned == Transaction(MapSeq(uTxOs, LAMBDA uTxO :
                                    TxIn(uTxO.txOutId, uTxO.txOutIndex, <<>>)),
                                txOuts)
    IN  [unsigned EXCEPT !.txIns =
            MapSeq(uTxOs, LAMBDA uTxO :
                TxIn(uTxO.txOutId, uTxO.txOutIndex, Sign(uTxO.address, unsigned.id)))]

\* The signed transaction that spends the first output of ZeroInTx: whoever
\* has seen it can send it again, whether or not that output is unspent.
ReplayTx == SpendTx(UnspentTxOut(ZeroInTx.id, 0, WalletAddress, 1), PeerAddress)

\* Pays out one more than the output it spends holds.
OverspendTx(uTxO) == SignedTx(<<uTxO>>, <<TxOut(PeerAddress, uTxO.amount + 1)>>)

\* Names the same output in two inputs, and pays out twice its amount.
DoubleInTx(uTxO) == SignedTx(<<uTxO, uTxO>>, <<TxOut(PeerAddress, 2 * uTxO.amount)>>)

\* Has the shape validateCoinbaseTx asks for, with the id of ZeroInTx as the
\* txOutId of its input.
OddCoinbaseTx(blockIndex) ==
    Transaction(<<TxIn(ZeroInTx.id, blockIndex, <<>>)>>,
                <<TxOut(PeerAddress, COINBASE_AMOUNT)>>)

\* A peer made up the outputs its inputs name: output 1 of the id '1' and
\* output 11 of the id ''.
MadeUpInputsTx ==
    Transaction(<<TxIn(<<Char(1)>>, 1, <<>>), TxIn(<<>>, 11, <<>>)>>,
                <<TxOut(PeerAddress, 0)>>)

LedgerTxs(aUnspentTxOuts) ==
    {ZeroInTx, ReplayTx}
    \cup {SpendTx(uTxO, PeerAddress) : uTxO \in Spendable(aUnspentTxOuts)}
    \cup {OverspendTx(uTxO) : uTxO \in Spendable(aUnspentTxOuts)}
    \cup {DoubleInTx(uTxO) : uTxO \in Spendable(aUnspentTxOuts)}

\* The signed transaction that spends the first output of `transaction`.
SpendFirstOutputOf(transaction) ==
    SpendTx(UnspentTxOut(transaction.id, 0, transaction.txOuts[1].address,
                         transaction.txOuts[1].amount),
            GenesisAddress)

\* The blocks a peer sends on top of `previousBlock`: its coinbase alone, a
\* coinbase that names an output, its coinbase followed by one transaction,
\* by ReplayTx and ZeroInTx, or by MadeUpInputsTx, and its coinbase followed
\* by a transaction that spends the coinbase's output or by a transaction
\* and one that spends the first output of that transaction.
LedgerBlocks(previousBlock, aUnspentTxOuts) ==
    LET coinbaseTx == getCoinbaseTransaction(PeerAddress, previousBlock.index + 1)
    IN  {PeerBlock(previousBlock, now, data, 0) :
            data \in {<<coinbaseTx>>,
                      <<OddCoinbaseTx(previousBlock.index + 1)>>,
                      <<coinbaseTx, ReplayTx, ZeroInTx>>,
                      <<coinbaseTx, MadeUpInputsTx>>,
                      <<coinbaseTx, SpendFirstOutputOf(coinbaseTx)>>}
                     \cup {<<coinbaseTx, tx>> : tx \in LedgerTxs(aUnspentTxOuts)}
                     \cup {<<coinbaseTx, tx, SpendFirstOutputOf(tx)>> :
                              tx \in UserTxs(aUnspentTxOuts)}}

\* An input of `transaction` names no entry of the unspent outputs.
HasUnknownInput(transaction, aUnspentTxOuts) ==
    \E i \in 1..Len(transaction.txIns) :
        \A k \in 1..Len(aUnspentTxOuts) :
            \/ aUnspentTxOuts[k].txOutId # transaction.txIns[i].txOutId
            \/ aUnspentTxOuts[k].txOutIndex # transaction.txIns[i].txOutIndex

\* A peer's block is handed to addBlockToChain.
SubmitBlock ==
    /\ Len(blockchain) < MaxLedger
    /\ \E newBlock \in LedgerBlocks(getLatestBlock, unspentTxOuts) :
          LET r == addBlockToChain(newBlock)
              obs == [validBlock |-> isValidNewBlock(newBlock, getLatestBlock),
                      validTxs |-> processTransactions(newBlock.data, unspentTxOuts,
                                                       newBlock.index).ok,
                      unknownInput |->
                          \E i \in 2..Len(newBlock.data) :
                              HasUnknownInput(newBlock.data[i], unspentTxOuts)]
          IN  /\ Commit(r, FALSE)
              /\ ret' = Called("addBlockToChain",
                               IF r.val THEN newBlock ELSE <<>>,
                               r.val, r.bc, obs)
    /\ UNCHANGED <<net, now, peerChain, mined>>

\* A transaction of a RESPONSE_TRANSACTION_POOL message, while the pool holds
\* fewer than maxPool transactions.
ReceiveTransaction(maxPool) ==
    /\ Len(transactionPool) < maxPool
    /\ \E transaction \in LedgerTxs(unspentTxOuts) :
          LET r == handleReceivedTransaction(transaction)
              obs == [valid |-> validateTransaction(transaction, unspentTxOuts),
                      unknownInput |-> HasUnknownInput(transaction, unspentTxOuts)]
          IN  /\ Commit(r, FALSE)
              /\ ret' = Called("handleReceivedTransaction", transaction,
                               r.val, r.bc, obs)
    /\ UNCHANGED <<net, now, peerChain, mined>>

\* POST /mineRawBlock with an empty list, and POST /mineBlock, which passes
\* the wallet's coinbase followed by the pool, while the chain holds fewer
\* than maxChain blocks.
MineBlock(maxChain) ==
    /\ Len(blockchain) < maxChain
    /\ \E blockData \in
            {<<>>,
             <<getCoinbaseTransaction(WalletAddress, getLatestBlock.index + 1)>>
                \o transactionPool} :
          /\ findBlockEnds(getLatestBlock.index + 1, getLatestBlock.hash, now,
                           blockData, getDifficulty(blockchain))
          /\ LET r == generateRawNextBlock(blockData)
             IN  /\ Commit(r, FALSE)
                 /\ ret' = Called("generateRawNextBlock", <<>>, r.val, r.bc, NoObs)
    /\ UNCHANGED <<net, now, peerChain, mined>>

SubmitTransaction == ReceiveTransaction(MaxLedgerPool)

MineRawBlock == MineBlock(MaxLedger)

LedgerNext ==
    \/ SubmitBlock
    \/ SubmitTransaction
    \/ MineRawBlock

LedgerSpec == Init /\ [][LedgerNext]_vars

(***************************************************************************)
(* PoolSpec: the node on its own, with the transactions of LedgerSpec sent *)
(* to its pool and the blocks it mines itself.                             *)
(***************************************************************************)
PoolSubmit == ReceiveTransaction(MaxLedgerPool)

PoolMine == MineBlock(MaxChain)

PoolNext ==
    \/ PoolSubmit
    \/ PoolMine

PoolSpec == Init /\ [][PoolNext]_vars

(***************************************************************************)
(* NodeSpec: the node among its callers.  A caller keeps the array         *)
(* getBlockchain() returned; a miner runs findBlock on the latest block    *)
(* and hands the block in later, as the node does within                   *)
(* generateRawNextBlock and as a peer does over the network; in between,   *)
(* peers' blocks and chains come in.  All blocks hold a coinbase alone.    *)
(***************************************************************************)
\* The block a peer mines on `previousBlock` at `difficulty`.
CoinbaseBlock(previousBlock, difficulty) ==
    PeerBlock(previousBlock, now,
              <<getCoinbaseTransaction(PeerAddress, previousBlock.index + 1)>>,
              difficulty)

\* A caller calls getBlockchain() and keeps what it returns.
GetBlockchain ==
    /\ ~snapshot.taken
    /\ snapshot' = [taken |-> TRUE, shared |-> TRUE,
                    was |-> blockchain, is |-> blockchain]
    /\ ret' = Called("getBlockchain", <<>>, FALSE, FALSE, NoObs)
    /\ UNCHANGED <<net, blockchain, unspentTxOuts, transactionPool, now, peerChain, mined>>

\* generateRawNextBlock up to the end of findBlock: the block is mined on the
\* latest block.
StartMining ==
    /\ ~mined.ok
    /\ CanGrow(blockchain)
    /\ LET previousBlock == getLatestBlock
           blockData == <<getCoinbaseTransaction(WalletAddress,
                                                 previousBlock.index + 1)>>
                          \o transactionPool
           difficulty == getDifficulty(blockchain)
       IN  /\ findBlockEnds(previousBlock.index + 1, previousBlock.hash, now,
                            blockData, difficulty)
           /\ mined' = [ok |-> TRUE,
                        block |-> findBlock(previousBlock.index + 1,
                                            previousBlock.hash, now, blockData,
                                            difficulty),
                        tip |-> previousBlock]
    /\ ret' = Called("findBlock", <<>>, FALSE, FALSE, NoObs)
    /\ UNCHANGED <<net, blockchain, unspentTxOuts, transactionPool, now, peerChain,
                   snapshot>>

\* The mined block is handed to addBlockToChain.
AddMinedBlock ==
    /\ mined.ok
    /\ LET r == addBlockToChain(mined.block)
           obs == [stale |-> getLatestBlock # mined.tip,
                   sameHeight |-> getLatestBlock.index = mined.tip.index]
       IN  /\ Commit(r, FALSE)
           /\ ret' = Called("addMinedBlock", <<>>, r.val, r.val, obs)
    /\ mined' = NoMined
    /\ UNCHANGED <<net, now, peerChain>>

\* A peer's block is handed to addBlockToChain.
ReceiveBlock ==
    /\ CanGrow(blockchain)
    /\ \E difficulty \in 0..MaxDifficulty :
          LET newBlock == CoinbaseBlock(getLatestBlock, difficulty)
              r == addBlockToChain(newBlock)
          IN  /\ Commit(r, FALSE)
              /\ ret' = Called("addBlockToChain", <<>>, r.val, r.bc, NoObs)
    /\ UNCHANGED <<net, now, peerChain, mined>>

\* The peer's chain is handed to replaceChain.
ReceiveChain ==
    /\ LET r == replaceChain(peerChain)
       IN  /\ Commit(r, r.val)
           /\ ret' = Called("replaceChain", <<>>, r.val, r.bc, NoObs)
    /\ UNCHANGED <<net, now, peerChain, mined>>

\* The peer puts one more block on its chain.
PeerMine ==
    /\ CanGrow(peerChain)
    /\ \E block \in (IF peerChain = <<>> THEN {genesisBlock}
                      ELSE {CoinbaseBlock(Last(peerChain), difficulty) :
                                difficulty \in 0..MaxDifficulty}) :
          peerChain' = Append(peerChain, block)
    /\ ret' = Called("peer", <<>>, FALSE, FALSE, NoObs)
    /\ UNCHANGED <<net, blockchain, unspentTxOuts, transactionPool, now, snapshot, mined>>

NodeNext ==
    \/ GetBlockchain
    \/ StartMining
    \/ AddMinedBlock
    \/ ReceiveBlock
    \/ ReceiveChain
    \/ PeerMine

NodeSpec == Init /\ [][NodeNext]_vars

(***************************************************************************)
(* p2p.ts: the message handler.  What JSON.parse makes of a peer's message *)
(* is not held to the declared types.  A received block is the fields of a *)
(* Block with the JavaScript type of `index` and the kind of value `data`  *)
(* holds; where `data` is no array, fields.data is the empty list.  The    *)
(* result of evaluating a function on such input says whether it threw.    *)
(***************************************************************************)
ReceivedBlock(fields, typeofIndex, dataIs) ==
    [fields |-> fields, typeofIndex |-> typeofIndex, dataIs |-> dataIs]

WellTyped(block) == ReceivedBlock(block, "number", "array")

Returned(val) == [thrown |-> FALSE, val |-> val]

Thrown(val) == [thrown |-> TRUE, val |-> val]

\* typeof null and typeof {} are 'object', as typeof [] is; difficulty and
\* nonce are not looked at.
isValidBlockStructure(block) ==
    /\ block.typeofIndex = "number"
    /\ block.dataIs \in {"array", "null", "object"}

\* '0'.repeat(count) throws a RangeError for a negative count.
repeatThrows(count) == count < 0

\* isValidNewBlock on a received block: hashMatchesDifficulty is reached
\* when every check before it has passed, and throws on '0'.repeat.
isValidNewBlockReceived(newBlock, previousBlock) ==
    IF ~isValidBlockStructure(newBlock) THEN Returned(FALSE)
    ELSE IF isValidNewBlock(newBlock.fields, previousBlock)
            /\ repeatThrows(newBlock.fields.difficulty)
         THEN Thrown(FALSE)
         ELSE Returned(isValidNewBlock(newBlock.fields, previousBlock))

\* processTransactions on a received block's data: aTransactions[0] throws a
\* TypeError on null and is undefined on an object that is no array, which
\* validateCoinbaseTx refuses.
processTransactionsReceived(block, aUnspentTxOuts) ==
    IF block.dataIs = "null" THEN Thrown(NULL)
    ELSE IF block.dataIs = "object" THEN Returned(NULL)
    ELSE Returned(processTransactions(block.fields.data, aUnspentTxOuts,
                                      block.fields.index))

addBlockToChainReceived(newBlock) ==
    LET same == Outcome(blockchain, unspentTxOuts, transactionPool, FALSE, FALSE)
        push(valid, retVal) ==
            IF valid.thrown THEN Thrown(same)
            ELSE IF ~valid.val THEN Returned(same)
            ELSE IF retVal.thrown THEN Thrown(same)
            ELSE IF newBlock.dataIs # "array" THEN Returned(same)
            ELSE Returned(addBlockToChain(newBlock.fields))
    IN  push(isValidNewBlockReceived(newBlock, getLatestBlock),
             processTransactionsReceived(newBlock, unspentTxOuts))

RECURSIVE validateFromReceived(_, _, _)
validateFromReceived(blockchainToValidate, i, aUnspentTxOuts) ==
    IF i > Len(blockchainToValidate) THEN Returned(Some(aUnspentTxOuts))
    ELSE LET next(valid, r) ==
                 IF valid.thrown THEN Thrown(NULL)
                 ELSE IF ~valid.val THEN Returned(NULL)
                 ELSE IF r.thrown THEN Thrown(NULL)
                 ELSE IF ~r.val.ok THEN Returned(NULL)
                 ELSE validateFromReceived(blockchainToValidate, i + 1, r.val.v)
         IN  next(IF i = 1 THEN Returned(TRUE)
                  ELSE isValidNewBlockReceived(blockchainToValidate[i],
                                               blockchainToValidate[i - 1].fields),
                  processTransactionsReceived(blockchainToValidate[i], aUnspentTxOuts))

\* JSON.stringify(block) === JSON.stringify(genesisBlock), then the loop.
isValidChainReceived(blockchainToValidate) ==
    IF blockchainToValidate[1] # WellTyped(genesisBlock) THEN Returned(NULL)
    ELSE validateFromReceived(blockchainToValidate, 1, <<>>)

\* A chain isValidChain accepts holds well-typed blocks only: its fields
\* are the chain replaceChain compares and assigns.
replaceChainReceived(newBlocks) ==
    LET same == Outcome(blockchain, unspentTxOuts, transactionPool, FALSE, FALSE)
        assign(aUnspentTxOuts) ==
            IF aUnspentTxOuts.thrown THEN Thrown(same)
            ELSE IF ~aUnspentTxOuts.val.ok THEN Returned(same)
            ELSE Returned(replaceChain(MapSeq(newBlocks, LAMBDA block : block.fields)))
    IN  assign(isValidChainReceived(newBlocks))

\* The messages a node sends.  `data` is what JSON.stringify is given.
queryAllMsg == [type |-> "QUERY_ALL", data |-> NULL]

responseChainMsg(chain) == [type |-> "RESPONSE_BLOCKCHAIN", data |-> Some(chain)]

responseLatestMsg(chain) ==
    [type |-> "RESPONSE_BLOCKCHAIN", data |-> Some(<<Last(chain)>>)]

responseTransactionPoolMsg(pool) ==
    [type |-> "RESPONSE_TRANSACTION_POOL", data |-> Some(pool)]

\* write(ws, message) to the socket the handled message came from, and
\* broadcast(message) to every socket of `sockets`.
write(message) == [to |-> "sender", message |-> message]

broadcast(message) == [to |-> "all", message |-> message]

\* What a function of the handler has done: whether it threw, the state it
\* left, and the messages it sent, in order.  addBlockToChain and
\* replaceChain report in `bc` that the latest block is to be broadcast.
Sends(result, sent) ==
    [thrown |-> result.thrown, val |-> result.val, sent |-> sent]

broadcastLatestIf(result) ==
    Sends(result, IF result.val.bc
                  THEN <<broadcast(responseLatestMsg(result.val.blockchain))>>
                  ELSE <<>>)

\* The received chain replaces the node's when it is at least as long.
handleBlockchainResponse_notShorter(receivedBlocks) ==
    LET same == Outcome(blockchain, unspentTxOuts, transactionPool, FALSE, FALSE)
        latestBlockReceived == Last(receivedBlocks)
        latestBlockHeld == getLatestBlock
        broadcastIf(added) ==
            IF added.thrown THEN added
            ELSE Returned([added.val EXCEPT !.bc = added.val.val])
    IN  IF Len(receivedBlocks) = 0 THEN Sends(Returned(same), <<>>)
        ELSE IF ~isValidBlockStructure(latestBlockReceived)
        THEN Sends(Returned(same), <<>>)
        ELSE IF latestBlockReceived.fields.index >= latestBlockHeld.index
        THEN IF latestBlockHeld.hash = latestBlockReceived.fields.previousHash
             THEN broadcastLatestIf(
                      broadcastIf(addBlockToChainReceived(latestBlockReceived)))
             ELSE IF Len(receivedBlocks) = 1
             THEN Sends(Returned(same), <<broadcast(queryAllMsg)>>)
             ELSE broadcastLatestIf(replaceChainReceived(receivedBlocks))
        ELSE Sends(Returned(same), <<>>)

handleBlockchainResponse(receivedBlocks) ==
    LET same == Outcome(blockchain, unspentTxOuts, transactionPool, FALSE, FALSE)
        latestBlockReceived == Last(receivedBlocks)
        latestBlockHeld == getLatestBlock
        broadcastIf(added) ==
            IF added.thrown THEN added
            ELSE Returned([added.val EXCEPT !.bc = added.val.val])
    IN  IF Len(receivedBlocks) = 0 THEN Sends(Returned(same), <<>>)
        ELSE IF ~isValidBlockStructure(latestBlockReceived)
        THEN Sends(Returned(same), <<>>)
        ELSE IF latestBlockReceived.fields.index > latestBlockHeld.index
        THEN IF latestBlockHeld.hash = latestBlockReceived.fields.previousHash
             THEN broadcastLatestIf(
                      broadcastIf(addBlockToChainReceived(latestBlockReceived)))
             ELSE IF Len(receivedBlocks) = 1
             THEN Sends(Returned(same), <<broadcast(queryAllMsg)>>)
             ELSE broadcastLatestIf(replaceChainReceived(receivedBlocks))
        ELSE Sends(Returned(same), <<>>)

\* receivedTransactions.forEach: what handleReceivedTransaction throws is
\* caught within the loop, and the next transaction is handled.
RECURSIVE handleReceivedTransactions(_, _)
handleReceivedTransactions(receivedTransactions, pool) ==
    IF receivedTransactions = <<>> THEN pool
    ELSE LET transaction == Head(receivedTransactions)
             added == /\ validateTransaction(transaction, unspentTxOuts)
                      /\ isValidTxForPool(transaction, pool)
         IN  handleReceivedTransactions(Tail(receivedTransactions),
                 IF added THEN Append(pool, transaction) ELSE pool)

\* The handler without its try and catch.
initMessageHandler_noCatch(message) ==
    LET same == Outcome(blockchain, unspentTxOuts, transactionPool, FALSE, FALSE)
        done(r) == [r |-> r, error |-> "none", sent |-> <<>>]
        reply(sent) == [r |-> same, error |-> "none", sent |-> <<write(sent)>>]
        end(handled) ==
            [r |-> handled.val,
             error |-> IF handled.thrown THEN "uncaught" ELSE "none",
             sent |-> handled.sent]
    IN  IF ~message.ok THEN done(same)
        ELSE IF message.v.type = "QUERY_LATEST"
        THEN reply(responseLatestMsg(blockchain))
        ELSE IF message.v.type = "QUERY_ALL"
        THEN reply(responseChainMsg(blockchain))
        ELSE IF message.v.type = "RESPONSE_BLOCKCHAIN"
        THEN IF ~message.v.data.ok THEN done(same)
             ELSE end(handleBlockchainResponse(message.v.data.v))
        ELSE IF message.v.type = "QUERY_TRANSACTION_POOL"
        THEN reply(responseTransactionPoolMsg(transactionPool))
        ELSE IF message.v.type = "RESPONSE_TRANSACTION_POOL"
        THEN IF ~message.v.data.ok THEN done(same)
             ELSE LET broadcastEach(pool) ==
                          [r |-> Outcome(blockchain, unspentTxOuts, pool,
                                         pool # transactionPool, FALSE),
                           error |-> "none",
                           sent |-> [i \in 1..(Len(pool) - Len(transactionPool)) |->
                                       broadcast(responseTransactionPoolMsg(
                                           SubSeq(pool, 1,
                                                  Len(transactionPool) + i)))]]
                  IN  broadcastEach(handleReceivedTransactions(message.v.data.v,
                                                               transactionPool))
        ELSE done(same)

\* ws.on('message'): the state the handler leaves, and whether an error was
\* thrown and caught on the way.  The queries are answered to the sender and
\* change nothing.
initMessageHandler(message) ==
    LET same == Outcome(blockchain, unspentTxOuts, transactionPool, FALSE, FALSE)
        done(r) == [r |-> r, error |-> "none", sent |-> <<>>]
        reply(sent) == [r |-> same, error |-> "none", sent |-> <<write(sent)>>]
        end(handled) ==
            [r |-> handled.val,
             error |-> IF handled.thrown THEN "caught" ELSE "none",
             sent |-> handled.sent]
    IN  IF ~message.ok THEN done(same)
        ELSE IF message.v.type = "QUERY_LATEST"
        THEN reply(responseLatestMsg(blockchain))
        ELSE IF message.v.type = "QUERY_ALL"
        THEN reply(responseChainMsg(blockchain))
        ELSE IF message.v.type = "RESPONSE_BLOCKCHAIN"
        THEN IF ~message.v.data.ok THEN done(same)
             ELSE end(handleBlockchainResponse(message.v.data.v))
        ELSE IF message.v.type = "QUERY_TRANSACTION_POOL"
        THEN reply(responseTransactionPoolMsg(transactionPool))
        ELSE IF message.v.type = "RESPONSE_TRANSACTION_POOL"
        THEN IF ~message.v.data.ok THEN done(same)
             ELSE LET broadcastEach(pool) ==
                          [r |-> Outcome(blockchain, unspentTxOuts, pool,
                                         pool # transactionPool, FALSE),
                           error |-> "none",
                           sent |-> [i \in 1..(Len(pool) - Len(transactionPool)) |->
                                       broadcast(responseTransactionPoolMsg(
                                           SubSeq(pool, 1,
                                                  Len(transactionPool) + i)))]]
                  IN  broadcastEach(handleReceivedTransactions(message.v.data.v,
                                                               transactionPool))
        ELSE done(same)

(***************************************************************************)
(* WireSpec: the node behind its message handler.  Peers send what they    *)
(* like: text that is no JSON, the latest block or the whole chain of a    *)
(* peer, blocks with fields of other types, lists of transactions.         *)
(***************************************************************************)
Message(type, data) == Some([type |-> type, data |-> data])

\* Blocks on `previousBlock` with a hash that is the digest of their fields
\* and one oddity each: the coinbase pays too much, data is null, data is an
\* object that is no array, index is a string, difficulty is negative.
OddBlocks(previousBlock) ==
    LET coinbaseTx == getCoinbaseTransaction(PeerAddress, previousBlock.index + 1)
        richTx == Transaction(<<TxIn(<<>>, previousBlock.index + 1, <<>>)>>,
                              <<TxOut(PeerAddress, COINBASE_AMOUNT + 1)>>)
    IN  { WellTyped(PeerBlock(previousBlock, now, <<richTx>>, 0)),
          ReceivedBlock(PeerBlock(previousBlock, now, <<>>, 0), "number", "null"),
          ReceivedBlock(PeerBlock(previousBlock, now, <<>>, 0), "number", "object"),
          ReceivedBlock(PeerBlock(previousBlock, now, <<coinbaseTx>>, 0),
                        "string", "array"),
          WellTyped(PeerBlock(previousBlock, now, <<coinbaseTx>>, -1)) }

\* A signed transaction whose input names no output of any transaction.
UnknownInputTx ==
    SpendTx(UnspentTxOut(<<>>, 0, WalletAddress, COINBASE_AMOUNT), PeerAddress)

\* The difficulties of the blocks peers mine: the least and the greatest.
PeerDifficulties == {0, MaxDifficulty}

\* The lists of blocks of RESPONSE_BLOCKCHAIN messages: none, one block on
\* the node's latest block, the peer's latest block, the peer's chain, and
\* the peer's chain with an odd block at its end.
ReceivedChains ==
    LET sent == MapSeq(peerChain, LAMBDA block : WellTyped(block))
    IN  {<<>>}
        \cup {<<WellTyped(CoinbaseBlock(getLatestBlock, difficulty))>> :
                difficulty \in PeerDifficulties}
        \cup {<<block>> : block \in OddBlocks(getLatestBlock)}
        \cup (IF peerChain = <<>> THEN {}
              ELSE {<<Last(sent)>>, sent}
                   \cup {Append(sent, block) : block \in OddBlocks(Last(peerChain))})

\* The lists of transactions of RESPONSE_TRANSACTION_POOL messages.
ReceivedTransactions ==
    {<<UnknownInputTx>>}
    \cup {<<UnknownInputTx, transaction>> : transaction \in UserTxs(unspentTxOuts)}

PeerMessages ==
    {NULL, Message("QUERY_LATEST", NULL), Message("QUERY_ALL", NULL),
     Message("QUERY_TRANSACTION_POOL", NULL), Message("RESPONSE_BLOCKCHAIN", NULL),
     Message("RESPONSE_TRANSACTION_POOL", NULL)}
    \cup {Message("RESPONSE_BLOCKCHAIN", Some(receivedBlocks)) :
            receivedBlocks \in ReceivedChains}
    \cup {Message("RESPONSE_TRANSACTION_POOL", Some(receivedTransactions)) :
            receivedTransactions \in ReceivedTransactions}

\* The valid chain a message presents: the blocks of a RESPONSE_BLOCKCHAIN
\* message when isValidChain returns unspent outputs for them, and no block
\* otherwise.
PresentedChain(message) ==
    IF /\ message.ok
       /\ message.v.type = "RESPONSE_BLOCKCHAIN"
       /\ message.v.data.ok
       /\ message.v.data.v # <<>>
       /\ LET accepted(aUnspentTxOuts) ==
                  ~aUnspentTxOuts.thrown /\ aUnspentTxOuts.val.ok
          IN  accepted(isValidChainReceived(message.v.data.v))
    THEN MapSeq(message.v.data.v, LAMBDA block : block.fields)
    ELSE <<>>

\* A message arrives on a socket.
HandleMessage ==
    /\ \E message \in PeerMessages :
       \E handled \in {initMessageHandler(message)} :
       \E presented \in {PresentedChain(message)} :
          LET validChain == presented # <<>>
              obs == [error |-> handled.error,
                      message |-> message,
                      sent |-> handled.sent,
                      validChain |-> validChain,
                      weight |-> IF validChain THEN getAccumulatedDifficulty(presented)
                                 ELSE 0]
          IN  /\ Len(handled.r.blockchain) <= MaxChain
              /\ Len(handled.r.transactionPool) <= MaxPool
              /\ Commit(handled.r, handled.r.blockchain # blockchain
                                   /\ handled.r.blockchain = presented)
              /\ ret' = Called("message", presented, handled.r.val, handled.r.bc,
                               obs)
    /\ UNCHANGED <<net, now, peerChain, mined>>

\* The peer puts one more block on its chain.
PeerAppend ==
    /\ CanGrow(peerChain)
    /\ \E block \in (IF peerChain = <<>> THEN {genesisBlock}
                      ELSE {CoinbaseBlock(Last(peerChain), difficulty) :
                                difficulty \in PeerDifficulties}) :
          peerChain' = Append(peerChain, block)
    /\ ret' = Called("peer", <<>>, FALSE, FALSE, NoObs)
    /\ UNCHANGED <<net, blockchain, unspentTxOuts, transactionPool, now, snapshot, mined>>

WireNext ==
    \/ HandleMessage
    \/ PeerAppend

WireSpec == Init /\ [][WireNext]_vars

(***************************************************************************)
(* RetargetSpec: the node at the boundary of a difficulty adjustment       *)
(* interval.  The node starts some time after the genesis block was        *)
(* stamped, takes over a peer's chain that ends at or just before the      *)
(* boundary, and mines on it.  The peer chose the difficulty of its first  *)
(* block and that of the later ones, and stamped its last block now.       *)
(***************************************************************************)
\* The seconds between the genesis block's timestamp and the node's clock:
\* around timeExpected / 2 and around timeExpected * 2.
ElapsedTimes == {49, 50, 51, 199, 200, 201}

RECURSIVE PacedChain(_, _, _, _)
PacedChain(length, first, rest, timestamp) ==
    IF length = 1 THEN <<genesisBlock>>
    ELSE LET chain == PacedChain(length - 1, first, rest, genesisBlock.timestamp)
             previousBlock == Last(chain)
         IN  Append(chain,
                    PeerBlock(previousBlock, timestamp,
                              <<getCoinbaseTransaction(PeerAddress,
                                                       previousBlock.index + 1)>>,
                              IF length = 2 THEN first ELSE rest))

RetargetInit ==
    /\ blockchain = <<genesisBlock>>
    /\ unspentTxOuts = processTransactions(genesisBlock.data, <<>>, 0).v
    /\ transactionPool = <<>>
    /\ now \in {genesisBlock.timestamp + elapsed : elapsed \in ElapsedTimes}
    /\ peerChain = <<>>
    /\ snapshot = NoSnapshot
    /\ mined = NoMined
    /\ sockets = <<>>
    /\ links = NoLinks
    /\ wire = NoWire
    /\ ret = Called("init", <<>>, FALSE, FALSE, NoObs)

\* A peer's chain of 10 or 11 blocks is handed to replaceChain.
ReceivePacedChain ==
    /\ \E length \in {DIFFICULTY_ADJUSTMENT_INTERVAL, DIFFICULTY_ADJUSTMENT_INTERVAL + 1} :
       \E first \in 0..MaxDifficulty, rest \in 0..MaxDifficulty :
          LET r == replaceChain(PacedChain(length, first, rest, now))
          IN  /\ Commit(r, r.val)
              /\ ret' = Called("replaceChain", <<>>, r.val, r.bc, NoObs)
    /\ UNCHANGED <<net, now, peerChain, mined>>

\* POST /mineBlock: findBlock throws on '0'.repeat when getDifficulty gives a
\* negative difficulty, and the request ends there.
RetargetMine ==
    /\ Len(blockchain) < MaxRetarget
    /\ LET difficulty == getDifficulty(blockchain)
           obs == [difficulty |-> difficulty, thrown |-> repeatThrows(difficulty)]
       IN  IF repeatThrows(difficulty)
           THEN /\ UNCHANGED <<net, blockchain, unspentTxOuts, transactionPool, snapshot>>
                /\ ret' = Called("generateNextBlock", <<>>, FALSE, FALSE, obs)
           ELSE /\ findBlockEnds(getLatestBlock.index + 1, getLatestBlock.hash, now,
                                 <<0>> \o transactionPool, difficulty)
                /\ LET r == generateNextBlock
                   IN  /\ Commit(r, FALSE)
                       /\ ret' = Called("generateNextBlock", <<>>, r.val.ok, r.bc, obs)
    /\ UNCHANGED <<net, now, peerChain, mined>>

RetargetNext ==
    \/ ReceivePacedChain
    \/ RetargetMine

RetargetSpec == RetargetInit /\ [][RetargetNext]_vars

(***************************************************************************)
(* ClockSpec: the node while its clock runs.  Peers stamp their blocks as  *)
(* they like, around the previous block's timestamp and around the node's  *)
(* clock; the blocks come in one at a time and as a chain.                 *)
(***************************************************************************)
\* The timestamps a peer gives a block on `previousBlock`.
Stamps(previousBlock) ==
    {previousBlock.timestamp - 60, previousBlock.timestamp - 59, now,
     now + 59, now + 60}

StampedBlock(previousBlock, timestamp) ==
    PeerBlock(previousBlock, timestamp,
              <<getCoinbaseTransaction(PeerAddress, previousBlock.index + 1)>>, 0)

\* A minute passes.
Tick ==
    /\ now < genesisBlock.timestamp + 60 * MaxClock
    /\ now' = now + 60
    /\ ret' = Called("tick", <<>>, FALSE, FALSE, NoObs)
    /\ UNCHANGED <<net, blockchain, unspentTxOuts, transactionPool, peerChain, snapshot,
                   mined>>

\* A peer's block is handed to addBlockToChain.
ReceiveStampedBlock ==
    /\ CanGrow(blockchain)
    /\ \E timestamp \in Stamps(getLatestBlock) :
          LET newBlock == StampedBlock(getLatestBlock, timestamp)
              r == addBlockToChain(newBlock)
              obs == [timestamp |-> timestamp]
          IN  /\ Commit(r, FALSE)
              /\ ret' = Called("addBlockToChain", <<>>, r.val, r.bc, obs)
    /\ UNCHANGED <<net, now, peerChain, mined>>

\* The peer puts one more block on its chain.
PeerStamp ==
    /\ CanGrow(peerChain)
    /\ \E block \in (IF peerChain = <<>> THEN {genesisBlock}
                      ELSE {StampedBlock(Last(peerChain), timestamp) :
                                timestamp \in Stamps(Last(peerChain))}) :
          peerChain' = Append(peerChain, block)
    /\ ret' = Called("peer", <<>>, FALSE, FALSE, NoObs)
    /\ UNCHANGED <<net, blockchain, unspentTxOuts, transactionPool, now, snapshot, mined>>

\* The peer's chain is handed to replaceChain.
ReceiveStampedChain ==
    /\ peerChain # <<>>
    /\ LET r == replaceChain(peerChain)
           obs == [timestamp |-> Last(peerChain).timestamp]
       IN  /\ Commit(r, r.val)
           /\ ret' = Called("replaceChain", <<>>, r.val, r.bc, obs)
    /\ UNCHANGED <<net, now, peerChain, mined>>

ClockNext ==
    \/ Tick
    \/ ReceiveStampedBlock
    \/ PeerStamp
    \/ ReceiveStampedChain

ClockSpec == Init /\ [][ClockNext]_vars

(***************************************************************************)
(* MinerFairSpec: findBlock one pass of its loop at a time.  It mines on   *)
(* its latest block and hands the block in; the loop is synchronous, so    *)
(* nothing but the clock moves while it runs.                              *)
(***************************************************************************)
\* The difficulties findBlock is called with: one of them asks for more
\* leading zeros than the hash has bits.
SearchDifficulties == 0..(HashBits + 1)

\* findBlock has been entered and has not returned.
Searching == mined # NoMined /\ ~mined.ok

\* One more nonce is tried.
findBlockStep_skipsOne(search) ==
    LET a == search.args
        hash == calculateHash(a.index, a.previousHash, a.timestamp, a.data,
                              a.difficulty, search.nonce)
    IN  IF hashMatchesDifficulty(hash, a.difficulty)
        THEN [search EXCEPT !.ok = TRUE,
                            !.block = Block(a.index, hash, a.previousHash,
                                            a.timestamp, a.data, a.difficulty,
                                            search.nonce)]
        ELSE [search EXCEPT !.nonce = @ + 2]

\* One pass of the loop: the hash for the nonce, the return when it matches
\* the difficulty, nonce++ when it does not.
findBlockStep(search) ==
    LET a == search.args
        hash == calculateHash(a.index, a.previousHash, a.timestamp, a.data,
                              a.difficulty, search.nonce)
    IN  IF hashMatchesDifficulty(hash, a.difficulty)
        THEN [search EXCEPT !.ok = TRUE,
                            !.block = Block(a.index, hash, a.previousHash,
                                            a.timestamp, a.data, a.difficulty,
                                            search.nonce)]
        ELSE [search EXCEPT !.nonce = @ + 1]

\* generateRawNextBlock calls findBlock: let nonce = 0.
FindBlockEnter ==
    /\ mined = NoMined
    /\ CanGrow(blockchain)
    /\ \E difficulty \in SearchDifficulties :
          LET previousBlock == getLatestBlock
              blockData == <<getCoinbaseTransaction(WalletAddress,
                                                    previousBlock.index + 1)>>
                             \o transactionPool
          IN  mined' = [ok |-> FALSE, block |-> <<>>, tip |-> previousBlock,
                        args |-> [index |-> previousBlock.index + 1,
                                  previousHash |-> previousBlock.hash,
                                  timestamp |-> now, data |-> blockData,
                                  difficulty |-> difficulty],
                        nonce |-> 0]
    /\ ret' = Called("findBlock", <<>>, FALSE, FALSE, NoObs)
    /\ UNCHANGED <<net, blockchain, unspentTxOuts, transactionPool, now, peerChain,
                   snapshot>>

\* The loop goes round once.  The bits repeat after the last of Nonces: a
\* search that has come that far is not followed further.
FindBlockStep ==
    /\ Searching
    /\ mined.nonce \in Nonces
    /\ mined' = findBlockStep(mined)
    /\ ret' = Called("findBlock", <<>>, FALSE, FALSE, NoObs)
    /\ UNCHANGED <<net, blockchain, unspentTxOuts, transactionPool, now, peerChain,
                   snapshot>>

MinerNext ==
    \/ FindBlockEnter
    \/ FindBlockStep
    \/ AddMinedBlock
    \/ Tick

\* The loop is a while (true) with nothing to wait for: it goes round as long
\* as it has not returned.
MinerFairSpec == Init /\ [][MinerNext]_vars /\ WF_vars(FindBlockStep)

(***************************************************************************)
(* ConnSpec: the sockets list under the events of the connections.  A      *)
(* connection is initialised once; the ws library emits 'error', 'close',  *)
(* or 'error' and then 'close' for it.                                     *)
(***************************************************************************)
\* Array.prototype.indexOf: the first position of `item`, counted from 0,
\* and -1 when the array does not hold it.
indexOf(array, item) ==
    IF \E i \in 1..Len(array) : array[i] = item
    THEN (CHOOSE i \in 1..Len(array) :
              array[i] = item /\ \A j \in 1..(i - 1) : array[j] # item) - 1
    ELSE -1

\* Array.prototype.splice(start, deleteCount) without new items: a negative
\* start counts from the end of the array.
splice(array, start, deleteCount) ==
    LET from == IF start < 0
                THEN (IF Len(array) + start < 0 THEN 0 ELSE Len(array) + start)
                ELSE (IF start > Len(array) THEN Len(array) ELSE start)
        count == IF deleteCount < 0 THEN 0
                 ELSE IF deleteCount > Len(array) - from THEN Len(array) - from
                 ELSE deleteCount
    IN  SubSeq(array, 1, from) \o SubSeq(array, from + count + 1, Len(array))

\* sockets.splice(sockets.indexOf(myWs), 1)
closeConnection(array, myWs) == splice(array, indexOf(array, myWs), 1)

\* server.on('connection') and ws.on('open'): initConnection(ws).
Connection ==
    /\ \E ws \in Sockets :
          /\ links[ws] = "unused"
          /\ sockets' = Append(sockets, ws)
          /\ links' = [links EXCEPT ![ws] = "open"]
          /\ ret' = Called("connection", ws, FALSE, FALSE, NoObs)
    /\ UNCHANGED <<blockchain, unspentTxOuts, transactionPool, now, peerChain,
                   snapshot, mined, wire>>

\* ws.on('error')
SocketError ==
    /\ \E ws \in Sockets :
          /\ links[ws] = "open"
          /\ sockets' = closeConnection(sockets, ws)
          /\ links' = [links EXCEPT ![ws] = "errored"]
          /\ ret' = Called("error", ws, FALSE, FALSE, NoObs)
    /\ UNCHANGED <<blockchain, unspentTxOuts, transactionPool, now, peerChain,
                   snapshot, mined, wire>>

\* ws.on('close'), for a connection that is open or has had its error.
SocketClose ==
    /\ \E ws \in Sockets :
          /\ links[ws] \in {"open", "errored"}
          /\ sockets' = closeConnection(sockets, ws)
          /\ links' = [links EXCEPT ![ws] = "closed"]
          /\ ret' = Called("close", ws, FALSE, FALSE, NoObs)
    /\ UNCHANGED <<blockchain, unspentTxOuts, transactionPool, now, peerChain,
                   snapshot, mined, wire>>

ConnNext ==
    \/ Connection
    \/ SocketError
    \/ SocketClose

ConnSpec == Init /\ [][ConnNext]_vars

(***************************************************************************)
(* SyncFairSpec: the node and a peer that runs the same program, connected *)
(* by one socket, with their messages in flight.  The peer is ahead: it    *)
(* mines and announces its blocks, answers QUERY_ALL, and drops what the   *)
(* node announces, which is never longer than what the peer holds because  *)
(* the node mines only while its chain is the shorter one.                 *)
(***************************************************************************)
\* What the handler of socket `ws` puts on the wire to `ws`, in order:
\* write goes to `ws`, broadcast to every socket of `sockets`.
Deliveries(sent, ws) ==
    MapSeq(SelectSeq(sent, LAMBDA call :
                        \/ call.to = "sender"
                        \/ \E i \in 1..Len(sockets) : sockets[i] = ws),
           LAMBDA call : call.message)

\* JSON.parse of what JSON.stringify made of a message of the same program:
\* the blocks come out with fields of the declared types.
Parsed(message) ==
    Message(message.type,
            IF message.type = "RESPONSE_BLOCKCHAIN" /\ message.data.ok
            THEN Some(MapSeq(message.data.v, LAMBDA block : WellTyped(block)))
            ELSE message.data)

SyncInit ==
    /\ blockchain = <<genesisBlock>>
    /\ unspentTxOuts = processTransactions(genesisBlock.data, <<>>, 0).v
    /\ transactionPool = <<>>
    /\ now = genesisBlock.timestamp
    /\ peerChain = <<genesisBlock>>
    /\ snapshot = NoSnapshot
    /\ mined = NoMined
    /\ sockets = <<1>>
    /\ links = [NoLinks EXCEPT ![1] = "open"]
    /\ wire = NoWire
    /\ ret = Called("init", <<>>, FALSE, FALSE, NoObs)

\* The next message from the peer arrives at the node's handler.
Deliver ==
    /\ wire.toNode # <<>>
    /\ \E message \in {Parsed(Head(wire.toNode))} :
       \E handled \in {initMessageHandler(message)} :
       \E presented \in {PresentedChain(message)} :
          /\ Commit(handled.r, handled.r.blockchain # blockchain
                               /\ handled.r.blockchain = presented)
          /\ wire' = [toNode |-> Tail(wire.toNode),
                      toPeer |-> wire.toPeer \o Deliveries(handled.sent, Head(sockets))]
          /\ Len(wire'.toNode) + Len(wire'.toPeer) <= MaxWire
          /\ ret' = Called("message", presented, handled.r.val, handled.r.bc,
                           [error |-> handled.error, message |-> message,
                            sent |-> handled.sent])
    /\ UNCHANGED <<now, peerChain, mined, sockets, links>>

\* The node mines a block and broadcasts it.
SyncMine ==
    /\ Len(blockchain) < Len(peerChain)
    /\ findBlockEnds(getLatestBlock.index + 1, getLatestBlock.hash, now,
                     <<0>> \o transactionPool, getDifficulty(blockchain))
    /\ \E r \in {generateNextBlock} :
          /\ Commit(r, FALSE)
          /\ wire' = [wire EXCEPT !.toPeer = @ \o
                Deliveries(IF r.bc THEN <<broadcast(responseLatestMsg(r.blockchain))>>
                           ELSE <<>>, Head(sockets))]
          /\ Len(wire'.toNode) + Len(wire'.toPeer) <= MaxWire
          /\ ret' = Called("generateNextBlock", <<>>, r.val.ok, r.bc, NoObs)
    /\ UNCHANGED <<now, peerChain, mined, sockets, links>>

\* The peer mines a block and broadcasts it.
PeerMines ==
    /\ Len(peerChain) < MaxChain
    /\ \E difficulty \in PeerDifficulties :
          /\ peerChain' = Append(peerChain, CoinbaseBlock(Last(peerChain), difficulty))
          /\ wire' = [wire EXCEPT !.toNode = Append(@, responseLatestMsg(peerChain'))]
    /\ Len(wire'.toNode) + Len(wire'.toPeer) <= MaxWire
    /\ ret' = Called("peer", <<>>, FALSE, FALSE, NoObs)
    /\ UNCHANGED <<blockchain, unspentTxOuts, transactionPool, now, snapshot, mined,
                   sockets, links>>

\* The next message from the node arrives at the peer's handler: QUERY_ALL
\* is answered with the peer's chain, a block that is not beyond the peer's
\* latest is dropped.
PeerHandle ==
    /\ wire.toPeer # <<>>
    /\ \E message \in {Head(wire.toPeer)} :
          \/ /\ message.type = "QUERY_ALL"
             /\ wire' = [toNode |-> Append(wire.toNode, responseChainMsg(peerChain)),
                         toPeer |-> Tail(wire.toPeer)]
          \/ /\ message.type = "RESPONSE_BLOCKCHAIN"
             /\ Last(message.data.v).index <= Last(peerChain).index
             /\ wire' = [wire EXCEPT !.toPeer = Tail(@)]
    /\ ret' = Called("peer", <<>>, FALSE, FALSE, NoObs)
    /\ UNCHANGED <<blockchain, unspentTxOuts, transactionPool, now, peerChain,
                   snapshot, mined, sockets, links>>

SyncNext ==
    \/ Deliver
    \/ SyncMine
    \/ PeerMines
    \/ PeerHandle

\* Messages are delivered in the end: a handler that has a message to take
\* takes one.
SyncFairSpec ==
    SyncInit /\ [][SyncNext]_vars /\ WF_vars(Deliver) /\ WF_vars(PeerHandle)

(***************************************************************************)
(* Properties.                                                             *)
(***************************************************************************)
\* C1: when addBlockToChain returns false, because isValidNewBlock fails or
\* because processTransactions returns null, the chain and the unspent
\* outputs are what they were before the call.
C1_RejectedBlockChangesNothing ==
    [][(ret'.op = "addBlockToChain" /\ ret'.val = FALSE)
        => (blockchain' = blockchain /\ unspentTxOuts' = unspentTxOuts)]_vars

\* A block that isValidNewBlock accepts and whose transactions
\* processTransactions refuses has been handed to addBlockToChain.
C1_Witness ==
    /\ ret.op = "addBlockToChain"
    /\ ret.val = FALSE
    /\ ret.obs.validBlock
    /\ ~ret.obs.validTxs

\* C2: addBlockToChain returns true exactly when isValidNewBlock holds of the
\* candidate and the latest block and processTransactions succeeds on the
\* candidate's data; then the chain is the old chain with the candidate
\* appended and the unspent outputs are the result of processTransactions.
C2_AcceptedBlockIsAppended ==
    [][ret'.op = "addBlockToChain"
        => /\ ret'.val <=> (ret'.obs.validBlock /\ ret'.obs.validTxs)
           /\ ret'.val =>
                 /\ blockchain' = Append(blockchain, ret'.arg)
                 /\ unspentTxOuts' =
                      processTransactions(ret'.arg.data, unspentTxOuts,
                                          ret'.arg.index).v]_vars

\* addBlockToChain has appended a block that carries a user's transaction.
C2_Witness ==
    /\ ret.op = "addBlockToChain"
    /\ ret.val = TRUE
    /\ Last(blockchain) = ret.arg
    /\ Len(ret.arg.data) > 1

\* C3: replaceChain changes the chain only to a chain that isValidChain
\* accepts and whose accumulated difficulty is strictly greater than that of
\* the chain held; on a tie the chain held stays.
C3_ReplacedOnlyByHeavierValidChain ==
    [][(ret'.op = "replaceChain" /\ blockchain' # blockchain)
        => /\ isValidChain(blockchain').ok
           /\ getAccumulatedDifficulty(blockchain')
                > getAccumulatedDifficulty(blockchain)]_vars

\* Two one-block extensions of the genesis block of equal difficulty: the node
\* holds one, the peer has sent the other, and the node has kept its own.
C3_Witness ==
    /\ ret.op = "replaceChain"
    /\ ret.val = FALSE
    /\ ret.obs.validChain
    /\ ret.obs.weight = ret.obs.held
    /\ Len(blockchain) = 2
    /\ Len(peerChain) = 2
    /\ peerChain # blockchain

\* C4: when replaceChain does not accept the candidate (isValidChain fails or
\* its accumulated difficulty is not strictly greater), the chain, the unspent
\* outputs and the pool are unchanged and nothing is broadcast.
C4_RejectedChainChangesNothing ==
    [][(ret'.op = "replaceChain"
          /\ ~(ret'.obs.validChain /\ ret'.obs.weight > ret'.obs.held))
        => /\ blockchain' = blockchain
           /\ unspentTxOuts' = unspentTxOuts
           /\ transactionPool' = transactionPool
           /\ ret'.bc = FALSE]_vars

\* A heavier chain that isValidChain refuses has been handed to replaceChain
\* while the pool held a transaction.
C4_Witness ==
    /\ ret.op = "replaceChain"
    /\ ~ret.obs.validChain
    /\ ret.obs.weight > ret.obs.held
    /\ transactionPool # <<>>

\* The unspent outputs derived from a chain: processTransactions folded over
\* its blocks in order, from the empty list.
RECURSIVE foldTransactions(_, _, _)
foldTransactions(chain, i, aUnspentTxOuts) ==
    IF i > Len(chain) THEN Some(aUnspentTxOuts)
    ELSE LET r == processTransactions(chain[i].data, aUnspentTxOuts, chain[i].index)
         IN  IF ~r.ok THEN NULL ELSE foldTransactions(chain, i + 1, r.v)

\* C5: in every reachable state the unspent outputs are processTransactions
\* folded over the blocks of the committed chain, from the empty list.
C5_UnspentIsFoldOfChain ==
    LET derived == foldTransactions(blockchain, 1, <<>>)
    IN  derived.ok /\ derived.v = unspentTxOuts

\* replaceChain has put in place a chain with a block that carries users'
\* transactions.
C5_Witness ==
    /\ ret.op = "replaceChain"
    /\ ret.val = TRUE
    /\ \E i \in 1..Len(blockchain) : Len(blockchain[i].data) > 1

\* C6: along the committed chain every block after the first has the index
\* of its predecessor plus one, its predecessor's hash as previousHash, and
\* as hash the digest of its own fields.
C6_ChainIsLinked ==
    \A i \in 2..Len(blockchain) :
        /\ blockchain[i].index = blockchain[i - 1].index + 1
        /\ blockchain[i].previousHash = blockchain[i - 1].hash
        /\ blockchain[i].hash = calculateHashForBlock(blockchain[i])

\* The chain holds two blocks after the genesis block, the last one taken in
\* by addBlockToChain.
C6_Witness ==
    /\ Len(blockchain) = 3
    /\ ret.op = "addBlockToChain"
    /\ ret.val = TRUE

\* C7: isValidChain refuses every chain whose first block is not the genesis
\* block, whatever follows it, and the first block of the committed chain is
\* the genesis block.
C7_GenesisIsFixed ==
    /\ blockchain[1] = genesisBlock
    /\ (ret.op = "replaceChain" /\ ~ret.obs.genesis)
         => (~ret.obs.validChain /\ ret.val = FALSE)

\* A heavier chain of two or more blocks on another first block has been
\* handed to replaceChain.
C7_Witness ==
    /\ ret.op = "replaceChain"
    /\ ~ret.obs.genesis
    /\ Len(peerChain) >= 2
    /\ ret.obs.weight > ret.obs.held

\* C8: every block of the committed chain after the genesis block has a hash
\* that is the digest of its fields and has `difficulty` leading zero bits.
C8_EveryBlockMeetsItsDifficulty ==
    \A i \in 2..Len(blockchain) :
        /\ hashMatchesBlockContent(blockchain[i])
        /\ hashMatchesDifficulty(blockchain[i].hash, blockchain[i].difficulty)

\* C9: no two entries of the unspent outputs have the same (txOutId,
\* txOutIndex).
C9_NoDuplicateKeys ==
    \A i, j \in 1..Len(unspentTxOuts) :
        (/\ unspentTxOuts[i].txOutId = unspentTxOuts[j].txOutId
         /\ unspentTxOuts[i].txOutIndex = unspentTxOuts[j].txOutIndex) => i = j

\* C10: the amounts of the unspent outputs add up to 50 for each block of the
\* committed chain.
C10_FiftyPerBlock ==
    SumSeq(MapSeq(unspentTxOuts, LAMBDA uTxO : uTxO.amount))
        = COINBASE_AMOUNT * Len(blockchain)

\* The (txOutId, txOutIndex) pairs that the inputs of the transactions after
\* the coinbase of `block` name.
ConsumedKeys(block) ==
    {<<block.data[t].txIns[i].txOutId, block.data[t].txIns[i].txOutIndex>> :
        <<t, i>> \in {<<u, j>> \in (2..Len(block.data)) \X (1..4) :
                        j <= Len(block.data[u].txIns)}}

\* C11: a transaction with an input that names no unspent output fails
\* validateTransaction, a block that holds one after its coinbase is refused
\* by addBlockToChain, and no output is named by the inputs of two blocks of
\* the committed chain.
C11_SpentOutputStaysSpent ==
    /\ (ret.op = "handleReceivedTransaction" /\ ret.obs.unknownInput)
          => (~ret.obs.valid /\ ret.val = FALSE)
    /\ (ret.op = "addBlockToChain" /\ ret.obs.unknownInput) => ret.val = FALSE
    /\ \A i, j \in 2..Len(blockchain) :
          i < j => ConsumedKeys(blockchain[i]) \cap ConsumedKeys(blockchain[j]) = {}

\* The first two parts of C11 alone: what is refused at the time it comes in.
C11_UnknownInputIsRefused ==
    /\ (ret.op = "handleReceivedTransaction" /\ ret.obs.unknownInput)
          => (~ret.obs.valid /\ ret.val = FALSE)
    /\ (ret.op = "addBlockToChain" /\ ret.obs.unknownInput) => ret.val = FALSE

\* The amount of the entry of the unspent outputs that `txIn` names.
ResolvedAmount(txIn, aUnspentTxOuts) ==
    LET k == CHOOSE k \in 1..Len(aUnspentTxOuts) :
                /\ aUnspentTxOuts[k].txOutId = txIn.txOutId
                /\ aUnspentTxOuts[k].txOutIndex = txIn.txOutIndex
    IN  aUnspentTxOuts[k].amount

\* C12: when validateTransaction holds of a transaction and the unspent
\* outputs, the amounts of its outputs add up to the amounts of the unspent
\* outputs its inputs name; a transaction whose sums differ is refused.
C12_ValidTransactionBalances ==
    [][ret'.op = "handleReceivedTransaction"
        => LET tx == ret'.arg
               outSum == SumSeq([i \in 1..Len(tx.txOuts) |-> tx.txOuts[i].amount])
               inSum == SumSeq([i \in 1..Len(tx.txIns) |->
                                  ResolvedAmount(tx.txIns[i], unspentTxOuts)])
           IN  /\ ret'.obs.valid => (~ret'.obs.unknownInput /\ outSum = inSum)
               /\ (~ret'.obs.unknownInput /\ outSum # inSum)
                    => (~ret'.obs.valid /\ ret'.val = FALSE)]_vars

\* A signed transaction whose input is unspent and whose output holds one
\* more than the input has been refused.
C12_Witness ==
    /\ ret.op = "handleReceivedTransaction"
    /\ ~ret.obs.unknownInput
    /\ Len(ret.arg.txIns) = 1
    /\ ret.arg.txOuts[1].amount
          = ResolvedAmount(ret.arg.txIns[1], unspentTxOuts) + 1
    /\ ret.val = FALSE

\* C13: the first transaction of every block of the committed chain has one
\* input, with the empty txOutId, the empty signature and the block's index
\* as txOutIndex, and one output, of amount 50.
C13_FirstTransactionIsCoinbase ==
    \A b \in 1..Len(blockchain) :
        /\ Len(blockchain[b].data) >= 1
        /\ LET coinbaseTx == blockchain[b].data[1]
           IN  /\ Len(coinbaseTx.txIns) = 1
               /\ coinbaseTx.txIns[1].txOutId = <<>>
               /\ coinbaseTx.txIns[1].signature = <<>>
               /\ coinbaseTx.txIns[1].txOutIndex = blockchain[b].index
               /\ Len(coinbaseTx.txOuts) = 1
               /\ coinbaseTx.txOuts[1].amount = 50

\* C15: every input of every pool entry names an entry of the unspent
\* outputs, and no (txOutId, txOutIndex) is named by two inputs of the pool.
C15_PoolInputsUnspentAndDistinct ==
    LET poolIns == Flatten([t \in 1..Len(transactionPool) |->
                               transactionPool[t].txIns])
    IN  /\ \A t \in 1..Len(transactionPool) :
              ~HasUnknownInput(transactionPool[t], unspentTxOuts)
        /\ \A i, j \in 1..Len(poolIns) :
              (/\ poolIns[i].txOutId = poolIns[j].txOutId
               /\ poolIns[i].txOutIndex = poolIns[j].txOutIndex) => i = j

\* C16: a transaction that is in the pool already is refused when it is
\* submitted again, and the pool stays as it is.
C16_SecondSubmissionIsRefused ==
    [][(/\ ret'.op = "handleReceivedTransaction"
        /\ \E t \in 1..Len(transactionPool) : transactionPool[t] = ret'.arg)
        => (ret'.val = FALSE /\ transactionPool' = transactionPool)]_vars

\* C19: generateRawNextBlock broadcasts exactly when it has appended its
\* block to the chain; when it has not, it returns null and the chain is
\* unchanged; when it has, the block it returns is the latest block.
C19_BroadcastIffCommitted ==
    [][ret'.op = "generateRawNextBlock"
        => /\ ret'.bc <=> (blockchain' # blockchain)
           /\ ret'.bc <=> ret'.val.ok
           /\ ~ret'.val.ok => (blockchain' = blockchain /\ ret'.val = NULL)
           /\ ret'.val.ok => /\ blockchain' = Append(blockchain, ret'.val.v)
                              /\ Last(blockchain') = ret'.val.v]_vars

\* generateRawNextBlock has returned null on a chain that holds a block it
\* mined before, with a transaction in the pool.
C19_Witness ==
    /\ ret.op = "generateRawNextBlock"
    /\ ret.val = NULL
    /\ ~ret.bc
    /\ transactionPool # <<>>
    /\ \E i \in 2..Len(blockchain) :
          blockchain[i].data[1].txOuts[1].address = WalletAddress

\* C18: what a caller got from getBlockchain() keeps the length and the
\* contents it had when it was returned, whatever addBlockToChain and
\* replaceChain do afterwards.
C18_SnapshotIsNotChanged ==
    snapshot.taken => snapshot.is = snapshot.was

\* C20: a mined block is appended only if the block it was mined on is still
\* the latest block when it is handed to addBlockToChain; if the latest block
\* is another one by then, the mined block is refused and dropped, and the
\* chain and the unspent outputs stay as they are.
C20_StaleMinedBlockIsRefused ==
    [][ret'.op = "addMinedBlock"
        => /\ ret'.val = TRUE
                => /\ getLatestBlock = mined.tip
                   /\ blockchain' = Append(blockchain, mined.block)
           /\ getLatestBlock # mined.tip
                => /\ ret'.val = FALSE
                   /\ blockchain' = blockchain
                   /\ unspentTxOuts' = unspentTxOuts
                   /\ mined' = NoMined]_vars

\* A block mined on a latest block that replaceChain has since replaced by
\* another block of the same index has been handed in, and refused.
C20_Witness ==
    /\ ret.op = "addMinedBlock"
    /\ ret.obs.stale
    /\ ret.obs.sameHeight
    /\ ret.val = FALSE
    /\ Len(blockchain) >= 2

\* The amounts of the unspent outputs of `address`, added up.
AmountOf(address, aUnspentTxOuts) ==
    SumSeq(MapSeq(aUnspentTxOuts,
                  LAMBDA uTxO : IF uTxO.address = address THEN uTxO.amount ELSE 0))

\* C14: generateNextBlock with an empty pool, when it returns its block, has
\* added to the unspent outputs the one entry (coinbaseTx.id, 0, A, 50), A
\* the wallet's address, and removed none, so that the amounts of A's
\* entries add up to 50 more than before.
C14_CoinbaseOnlyBlockAddsFifty ==
    [][(ret'.op = "generateNextBlock" /\ transactionPool = <<>> /\ ret'.val.ok)
        => LET nextIndex == Last(blockchain).index + 1
               coinbaseId == << << <<<< <<>>, nextIndex >>>>,
                                   <<<< WalletAddress, 50 >>>> >> >>
           IN  /\ ret'.val.v.data = <<[id |-> coinbaseId,
                                       txIns |-> <<TxIn(<<>>, nextIndex, <<>>)>>,
                                       txOuts |-> <<TxOut(WalletAddress, 50)>>]>>
               /\ unspentTxOuts' =
                     Append(unspentTxOuts,
                            UnspentTxOut(coinbaseId, 0, WalletAddress, 50))
               /\ AmountOf(WalletAddress, unspentTxOuts')
                     = AmountOf(WalletAddress, unspentTxOuts) + 50]_vars

\* generateNextBlock has mined a block that holds its coinbase transaction
\* alone, on a chain whose unspent outputs hold entries of the wallet's
\* address from earlier blocks.
C14_Witness ==
    /\ ret.op = "generateNextBlock"
    /\ ret.val.ok
    /\ Len(ret.val.v.data) = 1
    /\ Len(blockchain) = 3
    /\ AmountOf(WalletAddress, unspentTxOuts) > 50

\* C17: the accumulated difficulty of the committed chain never decreases
\* from one state to the next, and a replaceChain that replaces the chain
\* leaves it strictly greater.
C17_AccumulatedDifficultyNeverDecreases ==
    [][/\ getAccumulatedDifficulty(blockchain')
            >= getAccumulatedDifficulty(blockchain)
       /\ (ret'.op = "replaceChain" /\ ret'.val = TRUE)
            => getAccumulatedDifficulty(blockchain')
                 > getAccumulatedDifficulty(blockchain)]_vars

\* replaceChain has put in place the peer's chain of three blocks, one of
\* them of a difficulty above 0, each appended by the peer in its turn.
C17_Witness ==
    /\ ret.op = "replaceChain"
    /\ ret.val = TRUE
    /\ Len(blockchain) = 3
    /\ peerChain = blockchain
    /\ \E i \in 2..3 : blockchain[i].difficulty > 0

\* C21: whatever message a peer sends (text that is no JSON, an empty list of
\* blocks, a block with null or non-array data, a transaction with an input
\* that resolves to nothing), the message handler completes without an
\* uncaught error, and when it does not accept, the chain and the unspent
\* outputs are as they were.
C21_MessageHandlerCompletes ==
    [][ret'.op = "message" =>
          /\ ret'.obs.error # "uncaught"
          /\ ~ret'.val => /\ blockchain' = blockchain
                          /\ unspentTxOuts' = unspentTxOuts]_vars

\* A message has made the handler throw, and the handler has caught it, on
\* a node that holds blocks beyond the genesis block.
C21_Witness ==
    /\ ret.op = "message"
    /\ ret.obs.error = "caught"
    /\ ~ret.val
    /\ Len(blockchain) > 1

\* C22: when a message presents a valid chain whose accumulated difficulty
\* is strictly greater than that of the chain held, the chain held becomes
\* that chain, also when it has no more blocks than the chain held.
C22_HeavierValidChainWins ==
    [][(/\ ret'.op = "message"
        /\ ret'.obs.validChain
        /\ ret'.obs.weight > getAccumulatedDifficulty(blockchain))
          => blockchain' = ret'.arg]_vars

\* The seconds between the latest block and the block nine blocks before it.
TimeTaken(aBlockchain) ==
    Last(aBlockchain).timestamp
      - aBlockchain[Len(aBlockchain) - DIFFICULTY_ADJUSTMENT_INTERVAL + 1].timestamp

\* C23: getDifficulty gives the latest block's difficulty when the latest
\* block's index is not a positive multiple of 10; when it is, it gives that
\* difficulty plus 1 if the last interval took less than 50 seconds, minus 1
\* if it took more than 200 seconds, and that difficulty otherwise.
C23_GetDifficultyRetargets ==
    LET latestBlock == getLatestBlock
    IN  getDifficulty(blockchain) =
            IF latestBlock.index % 10 # 0 \/ latestBlock.index = 0
            THEN latestBlock.difficulty
            ELSE IF TimeTaken(blockchain) < 50 THEN latestBlock.difficulty + 1
            ELSE IF TimeTaken(blockchain) > 200 THEN latestBlock.difficulty - 1
            ELSE latestBlock.difficulty

\* C24: the difficulty getDifficulty computes for the next block, and the
\* difficulty of every block of the chain, is at least 0.
C24_DifficultyIsNotNegative ==
    /\ getDifficulty(blockchain) >= 0
    /\ \A i \in 1..Len(blockchain) : blockchain[i].difficulty >= 0

\* The transaction lists of the blocks that can reach processTransactions
\* in this state: those of peers' blocks and those the node mines on.
BlockDataHere ==
    {block.data : block \in LedgerBlocks(getLatestBlock, unspentTxOuts)}
    \cup {<<>>,
          <<getCoinbaseTransaction(WalletAddress, getLatestBlock.index + 1)>>
             \o transactionPool}

\* utxoSet without the entries an input of txs names, followed by an entry
\* for every output of every transaction of txs, in order.
RemainingThenNew(txs, utxoSet) ==
    LET named(entry) ==
            \E t \in 1..Len(txs) : \E i \in 1..Len(txs[t].txIns) :
                /\ txs[t].txIns[i].txOutId = entry.txOutId
                /\ txs[t].txIns[i].txOutIndex = entry.txOutIndex
        remaining == SelectSeq(utxoSet, LAMBDA entry : ~named(entry))
        new == Flatten([t \in 1..Len(txs) |->
                   [position \in 1..Len(txs[t].txOuts) |->
                       [txOutId |-> txs[t].id, txOutIndex |-> position - 1,
                        address |-> txs[t].txOuts[position].address,
                        amount |-> txs[t].txOuts[position].amount]]])
    IN  remaining \o new

\* C25: processTransactions(txs, utxoSet, blockIndex) returns null or
\* exactly utxoSet without every entry an input of txs names, followed by
\* one new entry (tx.id, position, address, amount) per output of every
\* transaction of txs; the unspent outputs it was given are left as they
\* were, which shows in the node's list when the block is refused.
C25_ProcessTransactionsResult ==
    /\ [](\A txs \in BlockDataHere :
             LET r == processTransactions(txs, unspentTxOuts,
                                          getLatestBlock.index + 1)
             IN  r.ok => r.v = RemainingThenNew(txs, unspentTxOuts))
    /\ [][(ret'.op = "generateRawNextBlock" /\ ~ret'.val.ok)
             => unspentTxOuts' = unspentTxOuts]_vars

\* The node has mined a block whose second transaction spends an unspent
\* output: processTransactions has removed an entry and added entries.
C25_Witness ==
    LET before == foldTransactions(SubSeq(blockchain, 1, Len(blockchain) - 1),
                                   1, <<>>).v
    IN  /\ ret.op = "generateRawNextBlock"
        /\ ret.val.ok
        /\ Len(ret.val.v.data) > 1
        /\ Len(ret.val.v.data[2].txIns) = 1
        /\ unspentTxOuts = RemainingThenNew(ret.val.v.data, before)
        /\ \E k \in 1..Len(before) :
              \A j \in 1..Len(unspentTxOuts) : unspentTxOuts[j] # before[k]

\* The inputs of all transactions of a block.
TxInsOf(data) == Flatten(MapSeq(data, LAMBDA tx : tx.txIns))

\* Two of the inputs have the same (txOutId, txOutIndex) pair.
SamePairTwice(txIns) ==
    \E i, j \in 1..Len(txIns) :
        /\ i < j
        /\ txIns[i].txOutId = txIns[j].txOutId
        /\ txIns[i].txOutIndex = txIns[j].txOutIndex

\* C26: hasDuplicates reports a duplicate exactly when two inputs among all
\* transactions of the block have the same (txOutId, txOutIndex) pair, never
\* for inputs with different pairs, and no block of the committed chain
\* holds two inputs with the same pair.
C26_DuplicateIffSamePair ==
    /\ \A block \in LedgerBlocks(getLatestBlock, unspentTxOuts) :
          hasDuplicates(TxInsOf(block.data)) <=> SamePairTwice(TxInsOf(block.data))
    /\ \A b \in 1..Len(blockchain) : ~SamePairTwice(TxInsOf(blockchain[b].data))

\* The transactions of `block` with the coinbase made out to the peer.
RedirectedData(block) ==
    <<getCoinbaseTransaction(PeerAddress, block.index)>> \o Tail(block.data)

\* C27: the hash covers the contents of data: a block whose transactions
\* were altered after mining, the other five fields being as they were, has
\* another hash input and fails the content-hash check of isValidNewBlock.
C27_AlteredDataFailsHashCheck ==
    mined.ok =>
        LET altered == [mined.block EXCEPT !.data = RedirectedData(mined.block)]
        IN  altered.data # mined.block.data
              => /\ calculateHashForBlock(altered) # calculateHashForBlock(mined.block)
                 /\ ~hashMatchesBlockContent(altered)
                 /\ ~isValidNewBlock(altered, mined.tip)

\* C28: isValidNewBlock accepts a candidate only if the previous block's
\* timestamp minus 60 is below the candidate's and the candidate's minus 60
\* is below the clock; hence every block of the chain after the first is
\* stamped later than its predecessor's timestamp minus 60, and a block
\* stamped 60 seconds or more ahead of the clock is refused.
C28_TimestampWithinTolerance ==
    /\ [](\A i \in 2..Len(blockchain) :
             blockchain[i - 1].timestamp - 60 < blockchain[i].timestamp)
    /\ [][/\ (ret'.op = "addBlockToChain" /\ ret'.val)
                => /\ getLatestBlock.timestamp - 60 < Last(blockchain').timestamp
                   /\ Last(blockchain').timestamp - 60 < now
          /\ (ret'.op \in {"addBlockToChain", "replaceChain"}
                /\ ret'.obs.timestamp >= now + 60)
                => (~ret'.val /\ blockchain' = blockchain)]_vars

\* The chain holds a block stamped 59 seconds before its predecessor, and a
\* block stamped 60 seconds ahead of the clock has just been refused.
C28_Witness ==
    /\ ret.op = "addBlockToChain"
    /\ ~ret.val
    /\ ret.obs.timestamp = now + 60
    /\ \E i \in 2..Len(blockchain) :
          blockchain[i].timestamp = blockchain[i - 1].timestamp - 59

\* The hash of the arguments of the search with `nonce` has the leading zero
\* bits the difficulty asks for.
NonceMatches(args, nonce) ==
    hashMatchesDifficulty(
        calculateHash(args.index, args.previousHash, args.timestamp, args.data,
                      args.difficulty, nonce),
        args.difficulty)

\* C29: findBlock tries the nonces 0, 1, 2, ... in order and returns the
\* block with the least nonce whose hash of the six fields has `difficulty`
\* leading zero bits; the block's hash is that hash and its other fields are
\* the arguments; when there is such a nonce the search ends, and for
\* difficulty 0 it ends at nonce 0.
C29_FindBlockLeastNonce ==
    /\ []((mined # NoMined /\ mined.ok) =>
            /\ NonceMatches(mined.args, mined.block.nonce)
            /\ \A nonce \in 0..(mined.block.nonce - 1) :
                  ~NonceMatches(mined.args, nonce)
            /\ mined.block.hash = calculateHashForBlock(mined.block)
            /\ mined.block.index = mined.args.index
            /\ mined.block.previousHash = mined.args.previousHash
            /\ mined.block.timestamp = mined.args.timestamp
            /\ mined.block.data = mined.args.data
            /\ mined.block.difficulty = mined.args.difficulty
            /\ mined.block = findBlock(mined.args.index, mined.args.previousHash,
                                       mined.args.timestamp, mined.args.data,
                                       mined.args.difficulty)
            /\ (mined.args.difficulty = 0 => mined.block.nonce = 0))
    /\ [][/\ (mined = NoMined /\ mined' # NoMined) => mined'.nonce = 0
          /\ (Searching /\ mined' # mined /\ ~mined'.ok)
                => (mined'.nonce = mined.nonce + 1 /\ mined'.args = mined.args)
          /\ (Searching /\ mined' # mined /\ mined'.ok)
                => (mined'.block.nonce = mined.nonce /\ mined'.args = mined.args)]_vars
    /\ ((Searching /\ \E nonce \in Nonces : NonceMatches(mined.args, nonce))
            ~> (mined # NoMined /\ mined.ok))

\* A search has returned a block after passing over a nonce.
C29_Witness ==
    /\ mined # NoMined
    /\ mined.ok
    /\ mined.block.nonce > 0
    /\ mined.block.difficulty > 0

\* The chains at hand: the node's and the peer's.
ChainsHere == {blockchain, peerChain} \ {<<>>}

\* Every block of `chain` has difficulty d or lower.
DifficultyAtMost(chain, d) == \A i \in 1..Len(chain) : chain[i].difficulty <= d

\* C30: under the sum of 2^difficulty over the blocks, a chain made only of
\* blocks with difficulty d or lower, of any length, has an accumulated
\* difficulty below 2^(d+1), the weight of one block at difficulty d+1.
C30_OneBlockOutweighsAnyChain ==
    \A chain \in ChainsHere : \A d \in 0..MaxDifficulty :
        DifficultyAtMost(chain, d) => getAccumulatedDifficulty(chain) < 2 ^ (d + 1)

\* C30, amended: a chain of n blocks with difficulty d or lower has an
\* accumulated difficulty of at least n and at most n * 2^d, which it has
\* when every block is at difficulty d; it is below 2^(d+1) when n = 1, and
\* not when two or more blocks are at difficulty d.
C30_WeightGrowsWithLength ==
    \A chain \in ChainsHere : \A d \in 0..MaxDifficulty :
        DifficultyAtMost(chain, d) =>
            /\ Len(chain) <= getAccumulatedDifficulty(chain)
            /\ getAccumulatedDifficulty(chain) <= Len(chain) * 2 ^ d
            /\ (\A i \in 1..Len(chain) : chain[i].difficulty = d)
                  => getAccumulatedDifficulty(chain) = Len(chain) * 2 ^ d
            /\ Len(chain) = 1 => getAccumulatedDifficulty(chain) < 2 ^ (d + 1)
            /\ Cardinality({i \in 1..Len(chain) : chain[i].difficulty = d}) >= 2
                  => getAccumulatedDifficulty(chain) >= 2 ^ (d + 1)

\* The node holds three blocks at difficulty 0, which together weigh more
\* than one block at difficulty 1.
C30_Witness ==
    /\ Len(blockchain) = 3
    /\ DifficultyAtMost(blockchain, 0)
    /\ getAccumulatedDifficulty(blockchain) > 2 ^ 1

\* The last call handled a RESPONSE_BLOCKCHAIN message whose list of blocks
\* is empty, ends in a block of invalid structure, or ends in a block with
\* an index that is not greater than the index of `latestBlockHeld`.
NotLongerResponse(call, latestBlockHeld) ==
    /\ call.op = "message"
    /\ call.obs.message.ok
    /\ call.obs.message.v.type = "RESPONSE_BLOCKCHAIN"
    /\ call.obs.message.v.data.ok
    /\ LET receivedBlocks == call.obs.message.v.data.v
       IN  \/ receivedBlocks = <<>>
           \/ ~isValidBlockStructure(Last(receivedBlocks))
           \/ Last(receivedBlocks).fields.index <= latestBlockHeld.index

\* C31: a RESPONSE_BLOCKCHAIN message with an empty list, with a last block
\* of invalid structure, or with a last block whose index is not greater
\* than the index of the node's latest block leaves the chain, the unspent
\* outputs and the pool as they were and makes the node send nothing; and
\* no message makes the node hold a chain that is not longer than the one
\* it held.
C31_NotLongerResponseIsIgnored ==
    [][/\ NotLongerResponse(ret', getLatestBlock)
            => /\ blockchain' = blockchain
               /\ unspentTxOuts' = unspentTxOuts
               /\ transactionPool' = transactionPool
               /\ ret'.obs.sent = <<>>
       /\ (ret'.op = "message" /\ blockchain' # blockchain)
            => Len(blockchain') > Len(blockchain)]_vars

\* A peer has sent a valid chain that is heavier than the node's and as long
\* as the node's, and the node has kept its own and sent nothing.
C31_Witness ==
    /\ NotLongerResponse(ret, getLatestBlock)
    /\ ret.obs.validChain
    /\ ret.obs.weight > getAccumulatedDifficulty(blockchain)
    /\ Len(ret.arg) = Len(blockchain)
    /\ ret.arg # blockchain
    /\ ret.obs.sent = <<>>

\* C33: the sockets list holds exactly the connections that were initialised
\* and have not since closed or errored, each once: a close or an error
\* event takes the socket it is for out of the list and no other, also when
\* both events come for one socket.
C33_SocketsAreTheOpenConnections ==
    /\ {sockets[i] : i \in 1..Len(sockets)} = {ws \in Sockets : links[ws] = "open"}
    /\ Len(sockets) = Cardinality({ws \in Sockets : links[ws] = "open"})

\* The last call handled a RESPONSE_BLOCKCHAIN message whose last block has
\* a valid structure and an index beyond the index of `latestBlockHeld`.
AheadResponse(call, latestBlockHeld) ==
    /\ call.op = "message"
    /\ call.obs.message.ok
    /\ call.obs.message.v.type = "RESPONSE_BLOCKCHAIN"
    /\ call.obs.message.v.data.ok
    /\ call.obs.message.v.data.v # <<>>
    /\ isValidBlockStructure(Last(call.obs.message.v.data.v))
    /\ Last(call.obs.message.v.data.v).fields.index > latestBlockHeld.index

\* The steps of the protocol: the query for the whole chain on a single
\* block that is ahead and does not link, the peer's answer to it, and the
\* block that links.
SyncSteps ==
    [][/\ (/\ AheadResponse(ret', getLatestBlock)
           /\ Len(ret'.obs.message.v.data.v) = 1
           /\ Last(ret'.obs.message.v.data.v).fields.previousHash # getLatestBlock.hash)
            => /\ blockchain' = blockchain
               /\ unspentTxOuts' = unspentTxOuts
               /\ transactionPool' = transactionPool
               /\ ret'.obs.sent = <<broadcast(queryAllMsg)>>
       /\ (/\ wire.toPeer # <<>>
           /\ wire'.toPeer = Tail(wire.toPeer)
           /\ Head(wire.toPeer).type = "QUERY_ALL")
            => wire'.toNode = Append(wire.toNode, responseChainMsg(peerChain))
       /\ (/\ AheadResponse(ret', getLatestBlock)
           /\ Last(ret'.obs.message.v.data.v).fields.previousHash = getLatestBlock.hash)
            => /\ blockchain' \in
                     {blockchain,
                      Append(blockchain, Last(ret'.obs.message.v.data.v).fields)}
               /\ ret'.obs.sent =
                     IF blockchain' # blockchain
                     THEN <<broadcast(responseLatestMsg(blockchain'))>>
                     ELSE <<>>]_vars

\* The node has asked for the whole chain, and the peer's chain is valid and
\* heavier than the node's.
AskedHeavierPeer ==
    /\ ret.op = "message"
    /\ ret.obs.sent = <<broadcast(queryAllMsg)>>
    /\ isValidChain(peerChain).ok
    /\ getAccumulatedDifficulty(peerChain) > getAccumulatedDifficulty(blockchain)

\* C32: a single latest block that is ahead of the node's and does not link
\* to its latest block changes no state and makes the node broadcast
\* QUERY_ALL; the peer that receives QUERY_ALL answers with its whole chain;
\* when messages are delivered in the end, the node comes to hold the
\* peer's chain unless that chain stops being valid and strictly heavier
\* than the node's; and a block
\* that extends the node's latest block is handed to addBlockToChain, the
\* latest block being broadcast exactly when the block was added.
C32_ChainSynchronisation ==
    /\ SyncSteps
    /\ (AskedHeavierPeer
          ~> \/ blockchain = peerChain
             \/ ~isValidChain(peerChain).ok
             \/ getAccumulatedDifficulty(peerChain)
                    <= getAccumulatedDifficulty(blockchain))

\* A transaction of `data` has an input that names an output of another
\* transaction of `data`.
SpendsWithinBlock(data) ==
    \E i, j \in 1..Len(data) :
        /\ i # j
        /\ \E k \in 1..Len(data[j].txIns) :
              /\ data[j].txIns[k].txOutId = data[i].id
              /\ data[j].txIns[k].txOutIndex < Len(data[i].txOuts)

\* C34: the transactions of a block are validated against the unspent
\* outputs as they were before the block, so that processTransactions
\* refuses a block in which a transaction spends an output created by
\* another transaction of the same block: addBlockToChain takes no such
\* block.
C34_NoSpendWithinBlock ==
    [][(ret'.op = "addBlockToChain" /\ ret'.val)
          => ~SpendsWithinBlock(ret'.arg.data)]_vars

====
